---- MODULE Spec2Model ----
(***************************************************************************)
(* A model of eoos::lib::Heap (lib.Heap.hpp): the Region descriptor, the   *)
(* intrusive chain of HeapBlock headers with first-fit allocation, split   *)
(* on allocate and coalescing on free, the construction checks and the     *)
(* optional global-interrupt toggle bracket.                               *)
(*                                                                         *)
(* Addresses and sizes are unsigned integers of SizeBits bits (size_t and  *)
(* uintptr_t have the same width); every size_t expression of the source   *)
(* is taken modulo 2^SizeBits.  sizeof(Heap) and sizeof(HeapBlock) are the *)
(* values of the LP64 layout (48 and 48).                                  *)
(*                                                                         *)
(* Spec takes every call as one step.  SpecEnv adds the environment of the *)
(* Region: the platform assigning the toggle pointer, the destructor and   *)
(* stray writes over the tags.  SpecSteps and FairSteps take allocate and  *)
(* free statement by statement, called by a task and by an interrupt       *)
(* handler that preempts the task while preemption is enabled.             *)
(***************************************************************************)
EXTENDS Integers, Sequences, FiniteSets, Bags, TLC

\* ------------------------------------------------------------------ bounds
\* Width of size_t / uintptr_t in the model.
SizeBits == 11
\* Number of allocate/free/setToggle/resetToggle calls explored per Region.
MaxCalls == 4

SizeMod == 2 ^ SizeBits

\* ------------------------------------------------------- program constants
NULLPTR == 0
SizeofHeap == 48
SizeofHeapBlock == 48
HEAP_KEY == 427888665
\* 0x1982040120150515 as <<high 32 bits, low 32 bits>>
BLOCK_KEY == <<427951105, 538248469>>
ATTR_USED == 1
NEXT_FREE == 1
PREV_FREE == 2
\* The platform's api::Toggle object, and the address of the global pointer to it.
TOGGLE == 1
TOGGLE_REF == 2

\* ------------------------------------------------------------------ inputs
\* Addresses handed to operator new: null, aligned to eight, not aligned.
Addresses == {0, 64, 68}
\* Total sizes handed to the constructor.
TotalSizes == {0, 104, 111, 112, 115, 120, 208, 1024}
\* Sizes handed to allocate; the last one is within 7 of the largest size_t.
AllocSizes == {0, 1, 32, 64, 128, SizeMod - 8, SizeMod - 1}
\* Pass-through addresses handed to allocate: null and a non-null one.
PassThrough == {NULLPTR, 8}

VARIABLES
    this,       \* address of the Heap object, NULLPTR when operator new gave none
    data_,      \* Heap::data_ : [block, toggle, size, key]
    mem,        \* HeapBlock headers in the backing memory: address -> header
    toggle,     \* the global api::Toggle* the registered reference refers to
    enabled,    \* enablement state of the controller behind TOGGLE
    ctor,       \* history: the arguments and outcome of the construction
    live,       \* history: bag of allocations returned and not yet freed
    last,       \* history: the last call, its arguments, result and toggle calls
    calls,      \* history: number of calls made on the Region
    scenario,   \* history: progress of the documented four-call scenario
    thr,        \* per execution context, the call in progress and its position
    val,        \* the memory validator at work: the cells and its position
    freed,      \* history: addresses passed to free while they were live
    sp,         \* SharedPtr instances, their control blocks and managed objects
    al,         \* an Align<T,S> object: its cells, and the last operator applied
    snap,       \* history: the chain before the last allocate, and what it returned
    calc,       \* a function computed on its own: its name, argument and result
    guard,      \* MutexGuard objects, their mutexes and the calls made on them
    string      \* an AbstractString: its context_ and the buffers it obtained

\* The variables only some of the specifications use; the calls of the
\* others leave them alone.
units == <<val, freed, sp, al, snap, calc, guard, string>>

vars == <<this, data_, mem, toggle, enabled, ctor, live, last, calls, scenario, thr, units>>

\* Width of a cell_t in bits, and the number of values of a cell.
CellBits == 8
CellMod == 2 ^ CellBits

\* ------------------------------------------------------- size_t arithmetic
Wrap(x) == x % SizeMod

\* x & ~0x7
AndNot7(x) == x - (x % 8)

\* ---------------------------------------------------------------- HeapBlock
isUsed(b) == (b.attr % 2) = ATTR_USED

BlockIsConstructed(b) == b.key = BLOCK_KEY

\* HeapBlock::HeapBlock(heap, size)
HeapBlock(heap, size) ==
    [heap |-> heap, prev |-> NULLPTR, next |-> NULLPTR, attr |-> 0,
     size |-> Wrap(size - SizeofHeapBlock), key |-> BLOCK_KEY]

\* HeapBlock::operator new(size_t, void* ptr)
BlockOperatorNew(ptr) ==
    IF (SizeofHeapBlock % 8) # 0 THEN NULLPTR
    ELSE IF (ptr % 8) # 0 THEN NULLPTR
    ELSE ptr

\* HeapBlock::data()
BlockData(addr) == Wrap(addr + SizeofHeapBlock)

\* next(size) that leaves 8 bytes between the payload and the next header
BlockNextApart(addr, size) == Wrap(addr + SizeofHeapBlock + size + 8)

\* HeapBlock::next(size)
BlockNext(addr, size) == Wrap(addr + SizeofHeapBlock + size)

\* Heap::heapBlock(data)
heapBlock(ptr) == Wrap(ptr - SizeofHeapBlock)

\* Writing a header at addr clobbers what stale headers overlapped its bytes.
Overlapped(m, addr) ==
    {a \in DOMAIN m : a # addr /\ a > addr - SizeofHeapBlock /\ a < addr + SizeofHeapBlock}

PutBlock(m, addr, b) ==
    LET keep == (DOMAIN m \ Overlapped(m, addr)) \cup {addr}
    IN  [a \in keep |-> IF a = addr THEN b ELSE m[a]]

\* The size alloc() searches for: "Align a size to 8 byte boudary".
AlignSize(size) ==
    IF (size % 8) # 0 THEN Wrap(AndNot7(size) + 8) ELSE size

\* A scan that keeps going and returns the last Block that is free and fits
RECURSIVE FindLastBlock(_, _, _)
FindLastBlock(m, curr, size) ==
    IF curr = NULLPTR THEN NULLPTR
    ELSE LET later == FindLastBlock(m, m[curr].next, size)
         IN  IF later # NULLPTR THEN later
             ELSE IF isUsed(m[curr]) \/ m[curr].size < size THEN NULLPTR
             ELSE curr

\* The while loop of alloc(): first Block from curr on that is free and fits.
RECURSIVE FindBlock(_, _, _)
FindBlock(m, curr, size) ==
    IF curr = NULLPTR THEN NULLPTR
    ELSE IF isUsed(m[curr]) THEN FindBlock(m, m[curr].next, size)
    ELSE IF m[curr].size < size THEN FindBlock(m, m[curr].next, size)
    ELSE curr

\* A split only when the surplus exceeds one header
NeedsSplitStrict(b, size) == b.size > Wrap(size + SizeofHeapBlock)

\* "Has required memory size for data and a new heap block"
NeedsSplit(b, size) == b.size >= Wrap(size + SizeofHeapBlock)

\* A split that links the new Block after curr's former next
SplitBlockAfterNext(m, first, curr, next, size) ==
    LET nb  == [HeapBlock(m[first].heap, Wrap(m[curr].size - size))
                    EXCEPT !.next = NULLPTR,
                           !.prev = IF m[curr].next # NULLPTR THEN m[curr].next ELSE curr]
        m1  == PutBlock(m, next, nb)
    IN  IF m[curr].next # NULLPTR
        THEN [m1 EXCEPT ![m[curr].next].next = next, ![curr].size = size]
        ELSE [m1 EXCEPT ![curr].next = next, ![curr].size = size]

\* A split that leaves the new Block's prev link as its constructor set it
SplitBlockNoPrev(m, first, curr, next, size) ==
    LET nb  == [HeapBlock(m[first].heap, Wrap(m[curr].size - size))
                    EXCEPT !.next = m[curr].next]
        m1  == PutBlock(m, next, nb)
        m2  == IF nb.next # NULLPTR
               THEN [m1 EXCEPT ![nb.next].prev = next]
               ELSE m1
    IN  [m2 EXCEPT ![curr].next = next, ![curr].size = size]

\* A split that leaves the prev link of curr's former next as it was
SplitBlockNoBackLink(m, first, curr, next, size) ==
    LET nb  == [HeapBlock(m[first].heap, Wrap(m[curr].size - size))
                    EXCEPT !.next = m[curr].next, !.prev = curr]
        m1  == PutBlock(m, next, nb)
    IN  [m1 EXCEPT ![curr].next = next, ![curr].size = size]

\* The body of the split: the chain with the new Block linked after curr.
SplitBlock(m, first, curr, next, size) ==
    LET nb  == [HeapBlock(m[first].heap, Wrap(m[curr].size - size))
                    EXCEPT !.next = m[curr].next, !.prev = curr]
        m1  == PutBlock(m, next, nb)
        m2  == IF nb.next # NULLPTR
               THEN [m1 EXCEPT ![nb.next].prev = next]
               ELSE m1
    IN  [m2 EXCEPT ![curr].next = next, ![curr].size = size]

\* alloc() forgetting to set ATTR_USED
MarkUsedSkipped(m, curr) == m

\* curr->attr_ |= ATTR_USED
MarkUsed(m, curr) ==
    [m EXCEPT ![curr].attr = IF (@ % 2) = ATTR_USED THEN @ ELSE @ + ATTR_USED]

\* alloc() from the scan on, for the aligned size: [mem, ret]
allocAligned(m, first, size) ==
    LET curr == FindBlock(m, first, size)
    IN  IF curr = NULLPTR THEN [mem |-> m, ret |-> NULLPTR]
        ELSE IF NeedsSplit(m[curr], size)
        THEN LET next == BlockOperatorNew(BlockNext(curr, size))
             IN  IF next = NULLPTR THEN [mem |-> m, ret |-> NULLPTR]
                 ELSE [mem |-> MarkUsed(SplitBlock(m, first, curr, next, size), curr),
                       ret |-> BlockData(curr)]
        ELSE [mem |-> MarkUsed(m, curr), ret |-> BlockData(curr)]

\* alloc() without its size == 0 test
allocZeroUnchecked(m, first, reqSize) == allocAligned(m, first, AlignSize(reqSize))

\* HeapBlock::alloc(size) called on the Block at first: [mem, ret]
alloc(m, first, reqSize) ==
    IF reqSize = 0 THEN [mem |-> m, ret |-> NULLPTR]
    ELSE allocAligned(m, first, AlignSize(reqSize))

\* free() forgetting to clear ATTR_USED
MarkFreeSkipped(m, curr) == m

\* attr_ &= ~ATTR_USED
MarkFree(m, curr) ==
    [m EXCEPT ![curr].attr = IF (@ % 2) = ATTR_USED THEN @ - ATTR_USED ELSE @]

\* canDelete() without the test of the Block's own tag
canDeleteNoTagTest(m, addr, heapOk) ==
    IF addr \notin DOMAIN m THEN FALSE
    ELSE IF ~heapOk THEN FALSE
    ELSE TRUE

\* HeapBlock::canDelete(); heapOk is heap_->isConstructed()
canDelete(m, addr, heapOk) ==
    IF addr \notin DOMAIN m THEN FALSE
    ELSE IF ~BlockIsConstructed(m[addr]) THEN FALSE
    ELSE IF ~heapOk THEN FALSE
    ELSE TRUE

\* The sibling mask computed by free()
Sibling(m, addr) ==
    (IF m[addr].prev # NULLPTR /\ ~isUsed(m[m[addr].prev]) THEN PREV_FREE ELSE 0)
  + (IF m[addr].next # NULLPTR /\ ~isUsed(m[m[addr].next]) THEN NEXT_FREE ELSE 0)

\* case PREV_FREE without the update of the next Block's prev link
FreePrevNoBackLink(m, addr) ==
    [m EXCEPT ![m[addr].prev].size = Wrap(@ + SizeofHeapBlock + m[addr].size),
              ![m[addr].prev].next = m[addr].next]

\* case PREV_FREE
FreePrev(m, addr) ==
    LET p  == m[addr].prev
        n  == m[addr].next
        m1 == [m EXCEPT ![p].size = Wrap(@ + SizeofHeapBlock + m[addr].size),
                        ![p].next = n]
    IN  IF n # NULLPTR THEN [m1 EXCEPT ![n].prev = p] ELSE m1

\* Both neighbours free, but only the previous one is merged
FreeBothPrevOnly(m, addr) == FreePrev(m, addr)

\* case PREV_FREE | NEXT_FREE
FreeBoth(m, addr) ==
    LET p  == m[addr].prev
        n  == m[addr].next
        nn == m[n].next
        m1 == [m EXCEPT ![p].size = Wrap(@ + 2 * SizeofHeapBlock + m[addr].size + m[n].size),
                        ![p].next = nn]
    IN  IF nn # NULLPTR THEN [m1 EXCEPT ![nn].prev = p] ELSE m1

\* The next neighbour is free, but is not merged
FreeNextUnmerged(m, addr) == MarkFree(m, addr)

\* case NEXT_FREE
FreeNext(m, addr) ==
    LET n  == m[addr].next
        nn == m[n].next
        m1 == [m EXCEPT ![addr].size = Wrap(@ + SizeofHeapBlock + m[n].size),
                        ![addr].next = nn]
        m2 == IF nn # NULLPTR THEN [m1 EXCEPT ![nn].prev = addr] ELSE m1
    IN  MarkFree(m2, addr)

\* HeapBlock::free() called on the Block at addr: the memory afterwards
free(m, addr, heapOk) ==
    IF ~canDelete(m, addr, heapOk) THEN m
    ELSE LET sibling == Sibling(m, addr)
         IN  CASE sibling = PREV_FREE + NEXT_FREE -> FreeBoth(m, addr)
               [] sibling = PREV_FREE             -> FreePrev(m, addr)
               [] sibling = NEXT_FREE             -> FreeNext(m, addr)
               [] OTHER                           -> MarkFree(m, addr)

\* --------------------------------------------------------------------- Heap
EmptyMem == [a \in {} |-> NULLPTR]

NoData == [block |-> NULLPTR, toggle |-> NULLPTR, size |-> 0, key |-> 0]

\* Heap::isMemoryAvailable(addr, size): good is whether every cell of the
\* range reads back what was written to it.
isMemoryAvailable(good) == good

\* Heap::create(ptr)
create(ptr, hdrGood) ==
    LET p1 == IF (SizeofHeap % 8) # 0 THEN NULLPTR ELSE ptr
        p2 == IF ~isMemoryAvailable(hdrGood) THEN NULLPTR ELSE p1
    IN  IF (p2 % 8) # 0 THEN NULLPTR ELSE p2

\* Heap::operator new(size_t, uintptr_t ptr)
HeapOperatorNew(ptr, hdrGood) ==
    IF ptr = NULLPTR THEN NULLPTR ELSE create(ptr, hdrGood)

\* HeapData taking the size as given, without cropping it
HeapDataUncropped(isize, itoggle) ==
    [block |-> NULLPTR, toggle |-> itoggle,
     size |-> Wrap(isize - SizeofHeap), key |-> HEAP_KEY]

\* HeapData::HeapData(isize) and HeapData(isize, itoggle)
HeapData(isize, itoggle) ==
    [block |-> NULLPTR, toggle |-> itoggle,
     size |-> Wrap(AndNot7(isize) - SizeofHeap), key |-> HEAP_KEY]

\* Heap::getFirstBlock()
getFirstBlock(t) == Wrap(t + SizeofHeap)

\* isConstructed() looking at the Region's own tag only
isConstructedOwnTagOnly(t, d, m) == d.key = HEAP_KEY

\* isConstructed() looking at the first Block's tag only
isConstructedFirstTagOnly(t, d, m) ==
    IF getFirstBlock(t) \notin DOMAIN m THEN FALSE
    ELSE IF ~BlockIsConstructed(m[getFirstBlock(t)]) THEN FALSE
    ELSE TRUE

\* Heap::isConstructed()
isConstructed(t, d, m) ==
    IF d.key # HEAP_KEY THEN FALSE
    ELSE IF getFirstBlock(t) \notin DOMAIN m THEN FALSE
    ELSE IF ~BlockIsConstructed(m[getFirstBlock(t)]) THEN FALSE
    ELSE TRUE

\* Heap::setConstructed(flag)
setConstructed(d, flag) ==
    IF d.key = HEAP_KEY
    THEN [d EXCEPT !.key = IF flag THEN HEAP_KEY ELSE 0]
    ELSE d

\* The size check rejecting the smallest Region that is large enough
TooSmallInclusive(d) == SizeofHeapBlock + 16 >= d.size

\* "Crop a size to multiple of eight": the size check of construct()
TooSmall(d) == SizeofHeapBlock + 16 > d.size

\* Heap::construct(): [ok, data, mem]
construct(t, d, memGood) ==
    IF TooSmall(d) THEN [ok |-> FALSE, data |-> d, mem |-> EmptyMem]
    ELSE IF (SizeofHeap % 8) # 0 THEN [ok |-> FALSE, data |-> d, mem |-> EmptyMem]
    ELSE IF (SizeofHeapBlock % 8) # 0 THEN [ok |-> FALSE, data |-> d, mem |-> EmptyMem]
    ELSE IF ~isMemoryAvailable(memGood) THEN [ok |-> FALSE, data |-> d, mem |-> EmptyMem]
    ELSE LET block == BlockOperatorNew(getFirstBlock(t))
         IN  [ok   |-> block # NULLPTR,
              data |-> [d EXCEPT !.block = block],
              mem  |-> IF block # NULLPTR
                       THEN PutBlock(EmptyMem, block, HeapBlock(t, d.size))
                       ELSE EmptyMem]

\* Heap::Heap(size) / Heap::Heap(size, toggle) on the memory operator new gave:
\* [data, mem, ok]
HeapCtor(t, isize, itoggle, memGood) ==
    LET c == construct(t, HeapData(isize, itoggle), memGood)
    IN  [data |-> setConstructed(c.data, c.ok), mem |-> c.mem, ok |-> c.ok]

\* api::Toggle::disable() and enable(status), as the interface documents them
ToggleDisable(en) == [ret |-> en, enabled |-> FALSE]
ToggleEnable(en, status) == IF status THEN TRUE ELSE en

\* disable() calling through the referenced pointer without testing it
disableNoNullTest(d, tg, en) ==
    IF d.toggle = NULLPTR THEN [is |-> FALSE, enabled |-> en, tog |-> <<>>]
    ELSE [is |-> ToggleDisable(en).ret, enabled |-> ToggleDisable(en).enabled,
          tog |-> <<"disable">>]

\* disable() returning without calling the toggle
disableSkipped(d, tg, en) == [is |-> FALSE, enabled |-> en, tog |-> <<>>]

\* Heap::disable(): [is, enabled, tog]
disable(d, tg, en) ==
    IF d.toggle = NULLPTR THEN [is |-> FALSE, enabled |-> en, tog |-> <<>>]
    ELSE IF tg # NULLPTR
         THEN [is |-> ToggleDisable(en).ret, enabled |-> ToggleDisable(en).enabled,
               tog |-> <<"disable">>]
         ELSE [is |-> FALSE, enabled |-> en, tog |-> <<>>]

\* enable() passing true to the toggle whatever disable() returned
enableAlways(d, tg, en, status) ==
    IF d.toggle = NULLPTR THEN [enabled |-> en, tog |-> <<>>]
    ELSE IF tg # NULLPTR
         THEN [enabled |-> ToggleEnable(en, TRUE), tog |-> <<"enable">>]
         ELSE [enabled |-> en, tog |-> <<>>]

\* Heap::enable(status): [enabled, tog]
enable(d, tg, en, status) ==
    IF d.toggle = NULLPTR THEN [enabled |-> en, tog |-> <<>>]
    ELSE IF tg # NULLPTR
         THEN [enabled |-> ToggleEnable(en, status), tog |-> <<"enable">>]
         ELSE [enabled |-> en, tog |-> <<>>]

\* allocate() testing the pass-through address before isConstructed()
HeapAllocatePtrFirst(t, d, m, tg, en, size, ptr) ==
    IF ptr # NULLPTR
    THEN [ret |-> ptr, mem |-> m, enabled |-> en, tog |-> <<>>]
    ELSE IF ~isConstructed(t, d, m)
    THEN [ret |-> NULLPTR, mem |-> m, enabled |-> en, tog |-> <<>>]
    ELSE LET dis == disable(d, tg, en)
             res == alloc(m, getFirstBlock(t), size)
             ena == enable(d, tg, dis.enabled, dis.is)
         IN  [ret |-> res.ret, mem |-> res.mem, enabled |-> ena.enabled,
              tog |-> dis.tog \o ena.tog]

\* allocate() testing the pass-through address inside the guard
HeapAllocatePtrInGuard(t, d, m, tg, en, size, ptr) ==
    IF ~isConstructed(t, d, m)
    THEN [ret |-> NULLPTR, mem |-> m, enabled |-> en, tog |-> <<>>]
    ELSE LET dis == disable(d, tg, en)
             res == IF ptr # NULLPTR THEN [mem |-> m, ret |-> ptr]
                    ELSE alloc(m, getFirstBlock(t), size)
             ena == enable(d, tg, dis.enabled, dis.is)
         IN  [ret |-> res.ret, mem |-> res.mem, enabled |-> ena.enabled,
              tog |-> dis.tog \o ena.tog]

\* Heap::allocate(size, ptr): [ret, mem, enabled, tog]
HeapAllocate(t, d, m, tg, en, size, ptr) ==
    IF ~isConstructed(t, d, m)
    THEN [ret |-> NULLPTR, mem |-> m, enabled |-> en, tog |-> <<>>]
    ELSE IF ptr # NULLPTR
    THEN [ret |-> ptr, mem |-> m, enabled |-> en, tog |-> <<>>]
    ELSE LET dis == disable(d, tg, en)
             res == alloc(m, getFirstBlock(t), size)
             ena == enable(d, tg, dis.enabled, dis.is)
         IN  [ret |-> res.ret, mem |-> res.mem, enabled |-> ena.enabled,
              tog |-> dis.tog \o ena.tog]

\* free() testing the address inside the guard
HeapFreeNullInGuard(t, d, m, tg, en, ptr) ==
    IF ~isConstructed(t, d, m) THEN [mem |-> m, enabled |-> en, tog |-> <<>>]
    ELSE LET dis == disable(d, tg, en)
             m1  == IF ptr = NULLPTR THEN m
                    ELSE free(m, heapBlock(ptr), isConstructed(t, d, m))
             ena == enable(d, tg, dis.enabled, dis.is)
         IN  [mem |-> m1, enabled |-> ena.enabled, tog |-> dis.tog \o ena.tog]

\* Heap::free(ptr): [mem, enabled, tog]
HeapFree(t, d, m, tg, en, ptr) ==
    IF ptr = NULLPTR THEN [mem |-> m, enabled |-> en, tog |-> <<>>]
    ELSE IF ~isConstructed(t, d, m) THEN [mem |-> m, enabled |-> en, tog |-> <<>>]
    ELSE LET dis == disable(d, tg, en)
             m1  == free(m, heapBlock(ptr), isConstructed(t, d, m))
             ena == enable(d, tg, dis.enabled, dis.is)
         IN  [mem |-> m1, enabled |-> ena.enabled, tog |-> dis.tog \o ena.tog]

\* ------------------------------------------------------------ the machine
Constructed == this # NULLPTR /\ isConstructed(this, data_, mem)

\* A toggle capability is registered: the Region holds a reference, and the
\* pointer it refers to is not null
Registered == data_.toggle # NULLPTR /\ toggle # NULLPTR

\* Pointers of the allocations that are live
LivePtrs == {r.ptr : r \in BagToSet(live)}

\* The documented scenario on a fresh Region: allocate(64), allocate(128),
\* free(p1), allocate(32).  step 5 means the calls left the scenario.
ScenarioOff == [step |-> 5, p1 |-> NULLPTR, p2 |-> NULLPTR, r |-> NULLPTR]

ScenarioNext(s, op, size, ptr, ret) ==
    IF s.step = 0 /\ op = "allocate" /\ size = 64 /\ ptr = NULLPTR /\ ret # NULLPTR
    THEN [s EXCEPT !.step = 1, !.p1 = ret]
    ELSE IF s.step = 1 /\ op = "allocate" /\ size = 128 /\ ptr = NULLPTR /\ ret # NULLPTR
    THEN [s EXCEPT !.step = 2, !.p2 = ret]
    ELSE IF s.step = 2 /\ op = "free" /\ ptr = s.p1
    THEN [s EXCEPT !.step = 3]
    ELSE IF s.step = 3 /\ op = "allocate" /\ size = 32 /\ ptr = NULLPTR
    THEN [s EXCEPT !.step = 4, !.r = ret]
    ELSE ScenarioOff

\* The execution contexts calling the Region: a task, and an interrupt
\* handler that preempts it.
Contexts == {"task", "isr"}

\* No validation is under way
ValIdle == [pc |-> "idle"]

\* No SharedPtr and no Align object exists
NoShared == [inst |-> <<>>, cbs |-> <<>>, objs |-> <<>>, failed |-> {}]
NoAlign == [op |-> "none"]

\* No function was computed on its own
NoCall == [fn |-> "none", arg |-> 0, ret |-> 0, pass |-> FALSE]

\* No allocate was called yet
NoSnap == [ptr |-> NULLPTR, chain |-> <<>>, split |-> FALSE, done |-> FALSE]

NoGuards == <<>>

NoString == [pc |-> "none"]

\* A context that is in no call
Idle ==
    [pc |-> "idle", op |-> "none", size |-> 0, ptr |-> NULLPTR, is |-> FALSE,
     curr |-> NULLPTR, ret |-> NULLPTR, visited |-> <<>>, tog |-> <<>>,
     expect |-> [mem |-> EmptyMem, ret |-> NULLPTR]]

\* new (addr) Heap(size) or new (addr) Heap(size, toggle)
Init ==
    \E addr \in Addresses, isize \in TotalSizes, itoggle \in {NULLPTR, TOGGLE_REF},
       hdrGood \in BOOLEAN, memGood \in BOOLEAN,
       tg \in {NULLPTR, TOGGLE}, en \in BOOLEAN :
        LET t == HeapOperatorNew(addr, hdrGood)
            h == HeapCtor(t, isize, itoggle, memGood)
        IN  /\ this = t
            /\ data_ = IF t = NULLPTR THEN NoData ELSE h.data
            /\ mem = IF t = NULLPTR THEN EmptyMem ELSE h.mem
            /\ toggle = tg
            /\ enabled = en
            /\ ctor = [addr |-> addr, size |-> isize, hdrGood |-> hdrGood,
                       memGood |-> memGood, ok |-> t # NULLPTR /\ h.ok]
            /\ live = EmptyBag
            /\ last = [op |-> "new", size |-> isize, ptr |-> addr, ret |-> t, tog |-> <<>>]
            /\ calls = 0
            /\ scenario = [step |-> 0, p1 |-> NULLPTR, p2 |-> NULLPTR, r |-> NULLPTR]
            /\ thr = [c \in Contexts |-> Idle]
            /\ val = ValIdle
            /\ freed = {}
            /\ snap = NoSnap
            /\ calc = NoCall
            /\ guard = NoGuards
            /\ string = NoString
            /\ sp = NoShared
            /\ al = NoAlign

\* heap->allocate(size, ptr)
Allocate(size, ptr) ==
    /\ this # NULLPTR
    /\ calls < MaxCalls
    /\ LET res == HeapAllocate(this, data_, mem, toggle, enabled, size, ptr)
       IN  /\ mem' = res.mem
           /\ enabled' = res.enabled
           /\ live' = IF ptr = NULLPTR /\ res.ret # NULLPTR
                      THEN live (+) SetToBag({[ptr |-> res.ret, size |-> size,
                                              aligned |-> AlignSize(size)]})
                      ELSE live
           /\ last' = [op |-> "allocate", size |-> size, ptr |-> ptr,
                       ret |-> res.ret, tog |-> res.tog]
           /\ scenario' = ScenarioNext(scenario, "allocate", size, ptr, res.ret)
    /\ calls' = calls + 1
    /\ UNCHANGED <<this, data_, toggle, ctor, thr, units>>

\* heap->free(ptr), ptr null, a live allocation, or (on a Region that is not
\* constructed) the address the first payload would have had
FreeArgs ==
    {NULLPTR} \cup LivePtrs
    \cup (IF Constructed THEN {} ELSE {BlockData(getFirstBlock(this))})

Free(ptr) ==
    /\ this # NULLPTR
    /\ calls < MaxCalls
    /\ ptr \in FreeArgs
    /\ LET res == HeapFree(this, data_, mem, toggle, enabled, ptr)
           rec == CHOOSE r \in BagToSet(live) : r.ptr = ptr
       IN  /\ mem' = res.mem
           /\ enabled' = res.enabled
           /\ live' = IF ptr \in LivePtrs THEN live (-) SetToBag({rec}) ELSE live
           /\ last' = [op |-> "free", size |-> 0, ptr |-> ptr, ret |-> NULLPTR,
                       tog |-> res.tog]
           /\ scenario' = ScenarioNext(scenario, "free", 0, ptr, NULLPTR)
    /\ calls' = calls + 1
    /\ UNCHANGED <<this, data_, toggle, ctor, thr, units>>

\* heap->setToggle(toggle)
SetToggle ==
    /\ this # NULLPTR
    /\ calls < MaxCalls
    /\ data_' = [data_ EXCEPT !.toggle = TOGGLE_REF]
    /\ last' = [op |-> "setToggle", size |-> 0, ptr |-> NULLPTR, ret |-> NULLPTR,
                tog |-> <<>>]
    /\ calls' = calls + 1
    /\ UNCHANGED <<this, mem, toggle, enabled, ctor, live, scenario, thr, units>>

\* heap->resetToggle()
ResetToggle ==
    /\ this # NULLPTR
    /\ calls < MaxCalls
    /\ data_' = [data_ EXCEPT !.toggle = NULLPTR]
    /\ last' = [op |-> "resetToggle", size |-> 0, ptr |-> NULLPTR, ret |-> NULLPTR,
                tog |-> <<>>]
    /\ calls' = calls + 1
    /\ UNCHANGED <<this, mem, toggle, enabled, ctor, live, scenario, thr, units>>

Next ==
    \/ \E size \in AllocSizes, ptr \in PassThrough : Allocate(size, ptr)
    \/ \E ptr \in FreeArgs : Free(ptr)
    \/ SetToggle
    \/ ResetToggle

Spec == Init /\ [][Next]_vars

\* ------------------------------------------ the Region in its environment
\* Number of calls made on a Region whose environment acts between them.
MaxEnvCalls == 3

\* The platform assigns the global api::Toggle* the Region refers to.
AssignToggle(tg) ==
    /\ tg # toggle
    /\ toggle' = tg
    /\ UNCHANGED <<this, data_, mem, enabled, ctor, live, last, calls, scenario, thr, units>>

\* heap->~Heap()
Destroy ==
    /\ this # NULLPTR
    /\ data_.key = HEAP_KEY
    /\ data_' = [data_ EXCEPT !.key = 0]
    /\ UNCHANGED <<this, mem, toggle, enabled, ctor, live, last, calls, scenario, thr, units>>

\* A stray write over the Region's own tag, or over the first Block's tag
ClobberTag(which) ==
    /\ this # NULLPTR
    /\ isConstructed(this, data_, mem)
    /\ IF which = "region"
       THEN data_' = [data_ EXCEPT !.key = HEAP_KEY + 1] /\ UNCHANGED mem
       ELSE mem' = [mem EXCEPT ![getFirstBlock(this)].key = <<0, 0>>] /\ UNCHANGED data_
    /\ UNCHANGED <<this, toggle, enabled, ctor, live, last, calls, scenario, thr, units>>

NextEnv ==
    \/ \E size \in AllocSizes, ptr \in PassThrough :
            calls < MaxEnvCalls /\ Allocate(size, ptr)
    \/ \E ptr \in FreeArgs : calls < MaxEnvCalls /\ Free(ptr)
    \/ calls < MaxEnvCalls /\ SetToggle
    \/ calls < MaxEnvCalls /\ ResetToggle
    \/ \E tg \in {NULLPTR, TOGGLE} : AssignToggle(tg)
    \/ Destroy
    \/ \E which \in {"region", "block"} : ClobberTag(which)

SpecEnv == Init /\ [][NextEnv]_vars

\* ------------------------------------- the calls, statement by statement
\* Number of calls the task and the interrupt handler make together.
MaxStepCalls == 4
\* Total sizes of the Regions the two contexts share, and the sizes they ask for.
StepTotals == {120, 208, 1024}
StepSizes == {0, 32, 64, SizeMod - 8}

\* An iteration of the scan that does not move on from a used Block
ScanIterStuck(m, curr, size) ==
    IF isUsed(m[curr]) THEN [curr |-> curr, found |-> FALSE]
    ELSE IF m[curr].size < size THEN [curr |-> m[curr].next, found |-> FALSE]
    ELSE [curr |-> curr, found |-> TRUE]

\* One iteration of the while loop of alloc() on a non-null curr: the Block
\* to look at next, and whether the loop broke on curr.
ScanIter(m, curr, size) ==
    IF isUsed(m[curr]) THEN [curr |-> m[curr].next, found |-> FALSE]
    ELSE IF m[curr].size < size THEN [curr |-> m[curr].next, found |-> FALSE]
    ELSE [curr |-> curr, found |-> TRUE]

\* allocate() entering the guard only after the scan
AllocateBodyLateGuard == <<"scan", "disable", "split", "mark", "enable">>

\* The statements of Heap::allocate after its early returns, with those of
\* alloc() in place of the call: disable(); the scan; the split; the used
\* flag; enable() and the return.
AllocateBody == <<"disable", "scan", "split", "mark", "enable">>

\* The statements of Heap::free after its early returns.
FreeBody == <<"disable", "free", "enable">>

Body(op) == IF op = "allocate" THEN AllocateBody ELSE FreeBody

\* The statement after label in the body of op
After(op, label) ==
    LET b == Body(op)
        i == CHOOSE k \in DOMAIN b : b[k] = label
    IN  IF i = Len(b) THEN "idle" ELSE b[i + 1]

\* The context c is the one executing: the task runs while the handler is
\* not active; the handler is entered only while preemption is enabled, and
\* runs to its end.
Runs(c) ==
    IF c = "task" THEN thr["isr"].pc = "idle"
    ELSE thr["isr"].pc # "idle" \/ enabled

\* Heap::allocate up to the guard: the early returns, or the call is entered
CallAllocate(c, size, ptr) ==
    /\ this # NULLPTR
    /\ calls < MaxStepCalls
    /\ thr[c].pc = "idle"
    /\ Runs(c)
    /\ IF ~isConstructed(this, data_, mem)
       THEN /\ last' = [op |-> "allocate", size |-> size, ptr |-> ptr,
                        ret |-> NULLPTR, tog |-> <<>>]
            /\ UNCHANGED thr
       ELSE IF ptr # NULLPTR
       THEN /\ last' = [op |-> "allocate", size |-> size, ptr |-> ptr,
                        ret |-> ptr, tog |-> <<>>]
            /\ UNCHANGED thr
       ELSE /\ thr' = [thr EXCEPT ![c] = [Idle EXCEPT !.pc = AllocateBody[1],
                                                      !.op = "allocate",
                                                      !.size = size,
                                                      !.curr = getFirstBlock(this)]]
            /\ UNCHANGED last
    /\ calls' = calls + 1
    /\ UNCHANGED <<this, data_, mem, toggle, enabled, ctor, live, scenario, units>>

\* Heap::free up to the guard; the caller gives the allocation up by the call
CallFree(c, ptr) ==
    /\ this # NULLPTR
    /\ calls < MaxStepCalls
    /\ thr[c].pc = "idle"
    /\ Runs(c)
    /\ ptr \in FreeArgs
    /\ IF ptr = NULLPTR \/ ~isConstructed(this, data_, mem)
       THEN /\ last' = [op |-> "free", size |-> 0, ptr |-> ptr, ret |-> NULLPTR,
                        tog |-> <<>>]
            /\ UNCHANGED thr
       ELSE /\ thr' = [thr EXCEPT ![c] = [Idle EXCEPT !.pc = FreeBody[1],
                                                      !.op = "free",
                                                      !.ptr = ptr]]
            /\ UNCHANGED last
    /\ live' = IF ptr \in LivePtrs
               THEN live (-) SetToBag({CHOOSE r \in BagToSet(live) : r.ptr = ptr})
               ELSE live
    /\ calls' = calls + 1
    /\ UNCHANGED <<this, data_, mem, toggle, enabled, ctor, scenario, units>>

\* const bool_t is = disable();  expect is what the whole chain operation
\* gives when applied at once to the chain as it is now.
DisableStep(c) ==
    /\ thr[c].pc = "disable"
    /\ Runs(c)
    /\ LET t   == thr[c]
           dis == disable(data_, toggle, enabled)
           exp == IF t.op = "allocate"
                  THEN alloc(mem, getFirstBlock(this), t.size)
                  ELSE [mem |-> free(mem, heapBlock(t.ptr),
                                     isConstructed(this, data_, mem)),
                        ret |-> NULLPTR]
       IN  /\ enabled' = dis.enabled
           /\ thr' = [thr EXCEPT ![c] = [t EXCEPT !.is = dis.is,
                                                  !.tog = @ \o dis.tog,
                                                  !.expect = exp,
                                                  !.pc = After(t.op, "disable")]]
    /\ UNCHANGED <<this, data_, mem, toggle, ctor, live, last, calls, scenario, units>>

\* alloc(): the size == 0 test, the alignment, and one iteration of the scan
ScanStep(c) ==
    /\ thr[c].pc = "scan"
    /\ Runs(c)
    /\ LET t == thr[c]
       IN  IF t.size = 0 \/ t.curr = NULLPTR
           THEN thr' = [thr EXCEPT ![c] = [t EXCEPT !.ret = NULLPTR, !.pc = "enable"]]
           ELSE /\ t.curr \in DOMAIN mem
                /\ LET it == ScanIter(mem, t.curr, AlignSize(t.size))
                   IN  thr' = [thr EXCEPT ![c] =
                                [t EXCEPT !.visited = Append(@, t.curr),
                                          !.curr = it.curr,
                                          !.pc = IF it.found THEN After(t.op, "scan")
                                                 ELSE "scan"]]
    /\ UNCHANGED <<this, data_, mem, toggle, enabled, ctor, live, last, calls, scenario, units>>

\* alloc(): the split of curr, when it has room for the data and a new Block
SplitStep(c) ==
    /\ thr[c].pc = "split"
    /\ Runs(c)
    /\ thr[c].curr \in DOMAIN mem
    /\ LET t     == thr[c]
           asize == AlignSize(t.size)
           next  == BlockOperatorNew(BlockNext(t.curr, asize))
       IN  IF ~NeedsSplit(mem[t.curr], asize)
           THEN /\ thr' = [thr EXCEPT ![c].pc = After(t.op, "split")]
                /\ UNCHANGED mem
           ELSE IF next = NULLPTR
           THEN /\ thr' = [thr EXCEPT ![c] = [t EXCEPT !.ret = NULLPTR, !.pc = "enable"]]
                /\ UNCHANGED mem
           ELSE /\ mem' = SplitBlock(mem, getFirstBlock(this), t.curr, next, asize)
                /\ thr' = [thr EXCEPT ![c].pc = After(t.op, "split")]
    /\ UNCHANGED <<this, data_, toggle, enabled, ctor, live, last, calls, scenario, units>>

\* alloc(): curr->attr_ |= ATTR_USED; return curr->data();
MarkStep(c) ==
    /\ thr[c].pc = "mark"
    /\ Runs(c)
    /\ thr[c].curr \in DOMAIN mem
    /\ mem' = MarkUsed(mem, thr[c].curr)
    /\ thr' = [thr EXCEPT ![c] = [thr[c] EXCEPT !.ret = BlockData(thr[c].curr),
                                                !.pc = After(thr[c].op, "mark")]]
    /\ UNCHANGED <<this, data_, toggle, enabled, ctor, live, last, calls, scenario, units>>

\* heapBlock(ptr)->free();
FreeStep(c) ==
    /\ thr[c].pc = "free"
    /\ Runs(c)
    /\ mem' = free(mem, heapBlock(thr[c].ptr), isConstructed(this, data_, mem))
    /\ thr' = [thr EXCEPT ![c].pc = After(thr[c].op, "free")]
    /\ UNCHANGED <<this, data_, toggle, enabled, ctor, live, last, calls, scenario, units>>

\* enable(is); and the return to the caller
EnableStep(c) ==
    /\ thr[c].pc = "enable"
    /\ Runs(c)
    /\ LET t   == thr[c]
           ena == enable(data_, toggle, enabled, t.is)
       IN  /\ enabled' = ena.enabled
           /\ last' = [op |-> t.op, size |-> t.size, ptr |-> t.ptr, ret |-> t.ret,
                       tog |-> t.tog \o ena.tog]
           /\ live' = IF t.op = "allocate" /\ t.ret # NULLPTR
                      THEN live (+) SetToBag({[ptr |-> t.ret, size |-> t.size,
                                              aligned |-> AlignSize(t.size)]})
                      ELSE live
    /\ thr' = [thr EXCEPT ![c] = Idle]
    /\ UNCHANGED <<this, data_, mem, toggle, ctor, calls, scenario, units>>

\* A constructed Region with a registered toggle, shared by the two contexts
InitSteps == Init /\ ctor.ok /\ ctor.size \in StepTotals /\ Registered

\* A statement of the call the context c is in
Continue(c) ==
    \/ DisableStep(c)
    \/ ScanStep(c)
    \/ SplitStep(c)
    \/ MarkStep(c)
    \/ FreeStep(c)
    \/ EnableStep(c)

NextSteps ==
    \/ \E c \in Contexts, size \in StepSizes, ptr \in PassThrough : CallAllocate(c, size, ptr)
    \/ \E c \in Contexts, ptr \in FreeArgs : CallFree(c, ptr)
    \/ \E c \in Contexts : DisableStep(c)
    \/ \E c \in Contexts : ScanStep(c)
    \/ \E c \in Contexts : SplitStep(c)
    \/ \E c \in Contexts : MarkStep(c)
    \/ \E c \in Contexts : FreeStep(c)
    \/ \E c \in Contexts : EnableStep(c)

SpecSteps == InitSteps /\ [][NextSteps]_vars

\* The processor executes the statements of the context that runs.
FairSteps == SpecSteps /\ \A c \in Contexts : WF_vars(Continue(c))

\* ------------------------------------------------- the Region, misused
\* Number of calls made on a Region whose caller also frees what is not live.
MaxMisuseCalls == 5
\* Total sizes of the misused Regions, and the sizes asked for.
MisuseTotals == {208, 1024}
MisuseSizes == {32, 64}

\* Addresses allocate returned, that were freed and are not live again
Stale == freed \ LivePtrs

\* Addresses inside a live payload: no header precedes them
Inside == {Wrap(p + 8) : p \in LivePtrs}

\* The header preceding ptr does not carry the Block tag
Untagged(ptr) ==
    heapBlock(ptr) \notin DOMAIN mem \/ ~BlockIsConstructed(mem[heapBlock(ptr)])

InitMisuse ==
    /\ Init
    /\ ctor.ok /\ ctor.addr = 64 /\ ctor.size \in MisuseTotals
    /\ toggle = NULLPTR /\ data_.toggle = NULLPTR

\* heap->allocate(size, NULLPTR)
MisuseAllocate(size) ==
    /\ calls < MaxMisuseCalls
    /\ LET res == HeapAllocate(this, data_, mem, toggle, enabled, size, NULLPTR)
       IN  /\ mem' = res.mem
           /\ enabled' = res.enabled
           /\ live' = IF res.ret # NULLPTR
                      THEN live (+) SetToBag({[ptr |-> res.ret, size |-> size,
                                              aligned |-> AlignSize(size)]})
                      ELSE live
           /\ last' = [op |-> "allocate", size |-> size, ptr |-> NULLPTR,
                       ret |-> res.ret, tog |-> res.tog]
           /\ scenario' = ScenarioNext(scenario, "allocate", size, NULLPTR, res.ret)
    /\ calls' = calls + 1
    /\ UNCHANGED <<this, data_, toggle, ctor, thr, units>>

\* heap->free(ptr), ptr live, freed before, or not preceded by a header
MisuseFree(ptr) ==
    /\ calls < MaxMisuseCalls
    /\ LET res == HeapFree(this, data_, mem, toggle, enabled, ptr)
           rec == CHOOSE r \in BagToSet(live) : r.ptr = ptr
       IN  /\ mem' = res.mem
           /\ enabled' = res.enabled
           /\ live' = IF ptr \in LivePtrs THEN live (-) SetToBag({rec}) ELSE live
           /\ freed' = IF ptr \in LivePtrs THEN freed \cup {ptr} ELSE freed
           /\ last' = [op |-> "free", size |-> 0, ptr |-> ptr, ret |-> NULLPTR,
                       tog |-> res.tog]
           /\ scenario' = ScenarioNext(scenario, "free", 0, ptr, NULLPTR)
    /\ calls' = calls + 1
    /\ UNCHANGED <<this, data_, toggle, ctor, thr, val, sp, al, snap, calc, guard, string>>

\* A stray write over the tag of a Block that is not the first one
StrayWrite(b) ==
    /\ Constructed
    /\ \A a \in DOMAIN mem : BlockIsConstructed(mem[a])
    /\ b \in DOMAIN mem /\ b # getFirstBlock(this)
    /\ mem' = [mem EXCEPT ![b].key = <<0, 0>>]
    /\ UNCHANGED <<this, data_, toggle, enabled, ctor, live, last, calls, scenario, thr, units>>

NextMisuse ==
    \/ \E size \in MisuseSizes : MisuseAllocate(size)
    \/ \E ptr \in LivePtrs \cup Stale \cup Inside : MisuseFree(ptr)
    \/ \E b \in DOMAIN mem : StrayWrite(b)

SpecMisuse == InitMisuse /\ [][NextMisuse]_vars

\* The same Regions and calls with a caller that frees live allocations only
NextProper ==
    \/ \E size \in MisuseSizes : MisuseAllocate(size)
    \/ \E ptr \in LivePtrs : MisuseFree(ptr)

SpecProper == InitMisuse /\ [][NextProper]_vars

\* --------------------------------------- allocations given back at once
\* Number of calls made, the total sizes of the Regions and the sizes asked for.
MaxRoundCalls == 4
RoundTotals == {208, 1024}
RoundSizes == {1, 32, 64, SizeMod - 1}

InitRound ==
    /\ Init
    /\ ctor.ok /\ ctor.addr = 64 /\ ctor.size \in RoundTotals
    /\ toggle = NULLPTR /\ data_.toggle = NULLPTR

\* The Blocks reached from curr by next links, at most fuel of them
RECURSIVE ChainFrom(_, _, _)
ChainFrom(m, curr, fuel) ==
    IF curr = NULLPTR \/ fuel = 0 \/ curr \notin DOMAIN m THEN <<>>
    ELSE <<curr>> \o ChainFrom(m, m[curr].next, fuel - 1)

\* The headers of the Blocks a walk along the next links from first visits
Walk(m, first) ==
    LET c == ChainFrom(m, first, Cardinality(DOMAIN m))
    IN  [i \in DOMAIN c |-> [addr |-> c[i], block |-> m[c[i]]]]

\* p = heap->allocate(size, NULLPTR)
RoundAllocate(size) ==
    /\ calls < MaxRoundCalls
    /\ LET res == HeapAllocate(this, data_, mem, toggle, enabled, size, NULLPTR)
       IN  /\ mem' = res.mem
           /\ enabled' = res.enabled
           /\ live' = IF res.ret # NULLPTR
                      THEN live (+) SetToBag({[ptr |-> res.ret, size |-> size,
                                              aligned |-> AlignSize(size)]})
                      ELSE live
           /\ last' = [op |-> "allocate", size |-> size, ptr |-> NULLPTR,
                       ret |-> res.ret, tog |-> res.tog]
           /\ scenario' = ScenarioNext(scenario, "allocate", size, NULLPTR, res.ret)
           /\ snap' = [ptr |-> res.ret, chain |-> Walk(mem, getFirstBlock(this)),
                       split |-> DOMAIN res.mem # DOMAIN mem, done |-> FALSE]
    /\ calls' = calls + 1
    /\ UNCHANGED <<this, data_, toggle, ctor, thr, val, freed, sp, al, calc, guard, string>>

\* heap->free(ptr) of a live allocation
RoundFree(ptr) ==
    /\ calls < MaxRoundCalls
    /\ ptr \in LivePtrs
    /\ LET res == HeapFree(this, data_, mem, toggle, enabled, ptr)
           rec == CHOOSE r \in BagToSet(live) : r.ptr = ptr
       IN  /\ mem' = res.mem
           /\ enabled' = res.enabled
           /\ live' = live (-) SetToBag({rec})
           /\ last' = [op |-> "free", size |-> 0, ptr |-> ptr, ret |-> NULLPTR,
                       tog |-> res.tog]
           /\ scenario' = ScenarioNext(scenario, "free", 0, ptr, NULLPTR)
           /\ snap' = [snap EXCEPT !.ptr = NULLPTR, !.done = (ptr = snap.ptr)]
    /\ calls' = calls + 1
    /\ UNCHANGED <<this, data_, toggle, ctor, thr, val, freed, sp, al, calc, guard, string>>

NextRound ==
    \/ \E size \in RoundSizes : RoundAllocate(size)
    \/ \E ptr \in LivePtrs : RoundFree(ptr)

SpecRound == InitRound /\ [][NextRound]_vars

\* ------------------------------------------------------------- SharedPtr
\* Number of places a SharedPtr may be constructed in, of objects ever passed
\* to a constructor, and of control blocks ever allocated.
MaxPtrs == 2
MaxObjs == 2
MaxCbs == 2

Slots == 1..MaxPtrs

\* A place holding no SharedPtr
NoInst == [constructed |-> FALSE, cb |-> NULLPTR, born |-> "none", arg |-> NULLPTR]

\* What can go wrong in SharedPtr(pointer): nothing, Object() of the
\* SharedPtr fails, new ControlBlock returns null, the ControlBlock is not
\* constructed
Faults == {"ok", "parent", "alloc", "cb"}

\* Object<A>(obj) and Object<A>::operator=(obj), on the constructed flag:
\* a copy is constructed if its source is, and a constructed object takes
\* the flag of the object assigned to it
ObjectCopy(flag) == flag
ObjectAssign(own, flag) == IF own THEN flag ELSE own

\* D::free(pointer): delete pointer
DFree(w, pointer) ==
    IF pointer = NULLPTR THEN w
    ELSE [w EXCEPT !.objs[pointer].deletes = @ + 1]

\* delete cb_: ~ControlBlock() calls DD::free(pointer_)
DeleteCb(w, cb) ==
    DFree([w EXCEPT !.cbs[cb].deletes = @ + 1], w.cbs[cb].pointer)

\* new ControlBlock<T,D,A,M>(pointer)
NewCb(w, pointer, cbOk) ==
    [w EXCEPT !.cbs = Append(@, [pointer |-> pointer, counter |-> 1,
                                 constructed |-> cbOk, deletes |-> 0])]

\* construct(pointer) that forgets the object when no control block is allocated
constructSharedLeak(w, pointer, fault) ==
    IF fault = "parent"
    THEN [w |-> DFree(w, pointer), cb |-> NULLPTR, res |-> FALSE]
    ELSE IF fault = "alloc"
    THEN [w |-> w, cb |-> NULLPTR, res |-> FALSE]
    ELSE LET w1 == NewCb(w, pointer, fault # "cb")
             cb == Len(w1.cbs)
         IN  IF ~w1.cbs[cb].constructed
             THEN [w |-> DeleteCb(w1, cb), cb |-> NULLPTR, res |-> FALSE]
             ELSE [w |-> w1, cb |-> cb, res |-> TRUE]

\* SharedPtr::construct(pointer): the world, cb_ and the result
constructShared(w, pointer, fault) ==
    IF fault = "parent"
    THEN [w |-> DFree(w, pointer), cb |-> NULLPTR, res |-> FALSE]
    ELSE IF fault = "alloc"
    THEN [w |-> DFree(w, pointer), cb |-> NULLPTR, res |-> FALSE]
    ELSE LET w1 == NewCb(w, pointer, fault # "cb")
             cb == Len(w1.cbs)
         IN  IF ~w1.cbs[cb].constructed
             THEN [w |-> DeleteCb(w1, cb), cb |-> NULLPTR, res |-> FALSE]
             ELSE [w |-> w1, cb |-> cb, res |-> TRUE]

\* ControlBlock::decrease() and ControlBlock::increase()
decrease(w, cb) == [w EXCEPT !.cbs[cb].counter = @ - 1]
increase(w, cb) == [w EXCEPT !.cbs[cb].counter = @ + 1]

\* SharedPtr::release(): the world and cb_
release(w, cb) ==
    IF cb = NULLPTR THEN [w |-> w, cb |-> cb]
    ELSE LET w1 == decrease(w, cb)
         IN  IF w1.cbs[cb].counter = 0
             THEN [w |-> DeleteCb(w1, cb), cb |-> NULLPTR]
             ELSE [w |-> w1, cb |-> cb]

\* acquire() that does not count the new holder
acquireNoIncrease(w, cb, constructed) ==
    IF cb # NULLPTR THEN [w |-> w, constructed |-> constructed]
    ELSE [w |-> w, constructed |-> FALSE]

\* SharedPtr::acquire(): the world and the constructed flag
acquire(w, cb, constructed) ==
    IF cb # NULLPTR THEN [w |-> increase(w, cb), constructed |-> constructed]
    ELSE [w |-> w, constructed |-> FALSE]

\* SharedPtr::get() and SharedPtr::getCount()
get(w, inst) == IF inst.constructed THEN w.cbs[inst.cb].pointer ELSE NULLPTR
getCount(w, inst) == IF inst.constructed THEN w.cbs[inst.cb].counter ELSE 0

World == [cbs |-> sp.cbs, objs |-> sp.objs]

\* The places that hold a SharedPtr
Held == {s \in DOMAIN sp.inst : sp.inst[s].born # "none"}

Region0 == <<this, data_, mem, toggle, enabled, ctor, live, last, calls, scenario, thr>>

\* No Region, validator run or misuse is part of the specifications of the
\* library's other classes
InitOthers ==
    /\ this = NULLPTR
    /\ data_ = NoData
    /\ mem = EmptyMem
    /\ toggle = NULLPTR
    /\ enabled = TRUE
    /\ ctor = [addr |-> NULLPTR, size |-> 0, hdrGood |-> FALSE, memGood |-> FALSE,
               ok |-> FALSE]
    /\ live = EmptyBag
    /\ last = [op |-> "none", size |-> 0, ptr |-> NULLPTR, ret |-> NULLPTR, tog |-> <<>>]
    /\ calls = 0
    /\ scenario = ScenarioOff
    /\ thr = [c \in Contexts |-> Idle]
    /\ val = ValIdle
    /\ freed = {}
    /\ snap = NoSnap
    /\ calc = NoCall
    /\ guard = NoGuards
    /\ string = NoString

InitShared ==
    /\ InitOthers
    /\ sp = [NoShared EXCEPT !.inst = [s \in Slots |-> NoInst]]
    /\ al = NoAlign

\* new (place s) SharedPtr<T>(pointer), pointer null or a new object
SharedNew(s, fresh, fault) ==
    /\ sp.inst[s].born = "none"
    /\ Len(sp.cbs) < MaxCbs
    /\ fresh => Len(sp.objs) < MaxObjs
    /\ LET w0      == IF fresh THEN [World EXCEPT !.objs = Append(@, [deletes |-> 0])]
                      ELSE World
           pointer == IF fresh THEN Len(w0.objs) ELSE NULLPTR
           c       == constructShared(w0, pointer, fault)
       IN  sp' = [inst |-> [sp.inst EXCEPT ![s] =
                               [constructed |-> fault # "parent" /\ c.res,
                                cb |-> c.cb,
                                born |-> IF c.res THEN "made" ELSE fault,
                                arg |-> pointer]],
                  cbs |-> c.w.cbs, objs |-> c.w.objs,
                  failed |-> IF c.res \/ ~fresh THEN sp.failed
                             ELSE sp.failed \cup {pointer}]
    /\ UNCHANGED <<Region0, val, freed, al, snap, calc, guard, string>>

\* new (place s) SharedPtr<T>(obj), obj the SharedPtr at src
SharedCopy(s, src) ==
    /\ sp.inst[s].born = "none"
    /\ src \in Held
    /\ LET a == acquire(World, sp.inst[src].cb, ObjectCopy(sp.inst[src].constructed))
       IN  sp' = [sp EXCEPT !.inst[s] = [constructed |-> a.constructed,
                                         cb |-> sp.inst[src].cb,
                                         born |-> "copy", arg |-> NULLPTR],
                            !.cbs = a.w.cbs, !.objs = a.w.objs]
    /\ UNCHANGED <<Region0, val, freed, al, snap, calc, guard, string>>

\* dst = src
SharedAssign(dst, src) ==
    /\ dst \in Held /\ src \in Held
    /\ IF dst # src /\ sp.inst[dst].constructed
       THEN LET r == release(World, sp.inst[dst].cb)
                a == acquire(r.w, sp.inst[src].cb,
                             ObjectAssign(sp.inst[dst].constructed, sp.inst[src].constructed))
            IN  sp' = [sp EXCEPT !.inst[dst].constructed = a.constructed,
                                 !.inst[dst].cb = sp.inst[src].cb,
                                 !.cbs = a.w.cbs, !.objs = a.w.objs]
       ELSE sp' = sp
    /\ UNCHANGED <<Region0, val, freed, al, snap, calc, guard, string>>

\* The SharedPtr at s is destroyed: ~SharedPtr()
SharedDestroy(s) ==
    /\ s \in Held
    /\ LET r == IF sp.inst[s].constructed THEN release(World, sp.inst[s].cb)
                ELSE [w |-> World, cb |-> sp.inst[s].cb]
       IN  sp' = [sp EXCEPT !.inst[s] = NoInst, !.cbs = r.w.cbs, !.objs = r.w.objs]
    /\ UNCHANGED <<Region0, val, freed, al, snap, calc, guard, string>>

NextShared ==
    \/ \E s \in Slots, fresh \in BOOLEAN, fault \in Faults : SharedNew(s, fresh, fault)
    \/ \E s \in Slots, src \in Slots : SharedCopy(s, src)
    \/ \E dst \in Slots, src \in Slots : SharedAssign(dst, src)
    \/ \E s \in Slots : SharedDestroy(s)

SpecShared == InitShared /\ [][NextShared]_vars

\* ----------------------------------------------------------------- Align
\* Number of operators applied to one Align object.
MaxAlignOps == 3
\* S of Align<T,S>, T the unsigned type of S cells, and the values assigned.
AlignSizes == {1, 2}
AlignValues == {0, 1, 127, 128, 255, 256, 32768, 65535}

\* Number of values of T
TypeMod(S) == 2 ^ (CellBits * S)

\* a | b
RECURSIVE BitOr(_, _)
BitOr(a, b) ==
    IF a = 0 THEN b
    ELSE IF b = 0 THEN a
    ELSE 2 * BitOr(a \div 2, b \div 2) + (IF a % 2 = 1 \/ b % 2 = 1 THEN 1 ELSE 0)

\* static_cast<T>(val_[i]): a build whose cell_t is signed extends the sign
CellAsT(c, S, signed) ==
    IF signed /\ c >= CellMod \div 2 THEN (TypeMod(S) - CellMod + c) % TypeMod(S) ELSE c

\* Align::assignment(value): val_[i] = static_cast<cell_t>(value >> (8 * i))
assignment(value, S) ==
    [i \in 1..S |-> (value \div (2 ^ (CellBits * (i - 1)))) % CellMod]

\* Align::typecast(): from the last cell down, r = r << 8; r = r | val_[i]
RECURSIVE typecastFrom(_, _, _, _, _)
typecastFrom(cells, S, signed, i, r) ==
    IF i < 1 THEN r
    ELSE typecastFrom(cells, S, signed, i - 1,
                      BitOr((r * CellMod) % TypeMod(S), CellAsT(cells[i], S, signed)))

typecast(cells, S, signed) == typecastFrom(cells, S, signed, S, 0)

\* ++val and --val of an unsigned T
Succ(v, S) == (v + 1) % TypeMod(S)
Pred(v, S) == (v + TypeMod(S) - 1) % TypeMod(S)

\* The unsigned value the cells hold, the first cell the least significant
RECURSIVE StoredValue(_, _)
StoredValue(cells, i) ==
    IF i > Len(cells) THEN 0
    ELSE cells[i] + CellMod * StoredValue(cells, i + 1)

\* Align<T,S> obj(value), in a build with signed or unsigned cells
InitAlign ==
    /\ InitOthers
    /\ sp = NoShared
    /\ \E S \in AlignSizes, signed \in BOOLEAN :
       \E value \in {v \in AlignValues : v < TypeMod(S)} :
            al = [op |-> "Align", n |-> 0, S |-> S, signed |-> signed,
                  cells |-> assignment(value, S), before |-> value]

Applied(op, cells) ==
    /\ al' = [al EXCEPT !.op = op, !.n = @ + 1, !.cells = cells,
                        !.before = StoredValue(al.cells, 1)]
    /\ UNCHANGED <<Region0, val, freed, sp, snap, calc, guard, string>>

\* ++obj:  T val = typecast(); assignment(++val);
PreIncrement ==
    /\ al.n < MaxAlignOps
    /\ Applied("++obj",
               assignment(Succ(typecast(al.cells, al.S, al.signed), al.S), al.S))

\* --obj:  T val = typecast(); assignment(--val);
PreDecrement ==
    /\ al.n < MaxAlignOps
    /\ Applied("--obj",
               assignment(Pred(typecast(al.cells, al.S, al.signed), al.S), al.S))

\* obj++:  T val = typecast(); assignment(val++);  the argument is the value
\* val had before it was incremented
PostIncrement ==
    /\ al.n < MaxAlignOps
    /\ Applied("obj++", assignment(typecast(al.cells, al.S, al.signed), al.S))

\* obj--:  T val = typecast(); assignment(val--);
PostDecrement ==
    /\ al.n < MaxAlignOps
    /\ Applied("obj--", assignment(typecast(al.cells, al.S, al.signed), al.S))

NextAlign == PreIncrement \/ PreDecrement \/ PostIncrement \/ PostDecrement

SpecAlign == InitAlign /\ [][NextAlign]_vars

\* ------------------------------------------- functions on their own
\* Widths of size_t of the builds, in bits.
KeyWidths == {32, 64}

\* key_ (BLOCK_KEY): the int64_t constant converted to a size_t of w bits; a
\* size_t of 32 bits keeps the low half
StoreKey(key, w) == IF w >= 64 THEN key ELSE <<0, key[2]>>

\* key_ == BLOCK_KEY: the size_t is converted to int64_t and compared
BlockTagCheck(stored) == stored = BLOCK_KEY

InitPure ==
    /\ InitOthers
    /\ sp = NoShared
    /\ al = NoAlign

\* The size alloc(size) searches for, size any size_t but 0
AlignRequest(size) ==
    /\ calc = NoCall
    /\ calc' = [fn |-> "AlignSize", arg |-> size, ret |-> AlignSize(size), pass |-> FALSE]
    /\ UNCHANGED <<Region0, val, freed, sp, al, snap, guard, string>>

\* new (ptr) HeapBlock(heap, size) and isConstructed() on it, in a build
\* whose size_t has w bits
ConstructBlock(w) ==
    /\ calc = NoCall
    /\ calc' = [fn |-> "HeapBlock", arg |-> w, ret |-> 0,
              pass |-> BlockTagCheck(StoreKey(HeapBlock(NULLPTR, SizeofHeapBlock).key, w))]
    /\ UNCHANGED <<Region0, val, freed, sp, al, snap, guard, string>>

NextPure ==
    \/ \E size \in 1..(SizeMod - 1) : AlignRequest(size)
    \/ \E w \in KeyWidths : ConstructBlock(w)

SpecPure == InitPure /\ [][NextPure]_vars

\* ------------------------------------------------------------ MutexGuard
\* Guards constructed in one run.
MaxGuards == 3

\* Object<A>::setConstructed(flag): an object that is not constructed stays so
ObjectSetConstructed(own, flag) == IF own THEN flag ELSE FALSE

\* api::Mutex, as a guard sees it: whether it is constructed, and what its
\* lock() returns
MutexKinds == [isConstructed : BOOLEAN, lock : BOOLEAN]

\* MutexGuard::construct(): the calls made on the mutex and the result
constructGuard(own, mutex) ==
    IF ~own THEN [res |-> FALSE, made |-> <<>>]
    ELSE IF ~mutex.isConstructed THEN [res |-> FALSE, made |-> <<>>]
    ELSE [res |-> mutex.lock, made |-> << [fn |-> "lock", at |-> "constructor"] >>]

\* MutexGuard(mutex): Parent(), then setConstructed(construct())
MutexGuardNew(own, mutex) ==
    LET c == constructGuard(own, mutex)
    IN  [pc |-> "alive", mutex |-> mutex.isConstructed,
         locked |-> (c.made # <<>> /\ c.res),
         isConstructed |-> ObjectSetConstructed(own, c.res), made |-> c.made]

\* ~MutexGuard() unlocking whatever the guard is
MutexGuardDeleteUnlocks(g) ==
    [g EXCEPT !.pc = "gone",
              !.made = Append(@, [fn |-> "unlock", at |-> "destructor"])]

\* ~MutexGuard(): unlock() if the guard is constructed
MutexGuardDelete(g) ==
    [g EXCEPT !.pc = "gone",
              !.made = IF g.isConstructed
                       THEN Append(@, [fn |-> "unlock", at |-> "destructor"])
                       ELSE @]

InitGuard ==
    /\ InitOthers
    /\ sp = NoShared
    /\ al = NoAlign

\* MutexGuard<A> guard(mutex), the Object<A> under it constructed or not
GuardNew(own, mutex) ==
    /\ Len(guard) < MaxGuards
    /\ guard' = Append(guard, MutexGuardNew(own, mutex))
    /\ UNCHANGED <<Region0, val, freed, sp, al, snap, calc, string>>

\* The guard g goes out of scope
GuardDelete(g) ==
    /\ g \in DOMAIN guard
    /\ guard[g].pc = "alive"
    /\ guard' = [guard EXCEPT ![g] = MutexGuardDelete(guard[g])]
    /\ UNCHANGED <<Region0, val, freed, sp, al, snap, calc, string>>

NextGuard ==
    \/ \E own \in BOOLEAN, mutex \in MutexKinds : GuardNew(own, mutex)
    \/ \E g \in 1..MaxGuards : GuardDelete(g)

SpecGuard == InitGuard /\ [][NextGuard]_vars

\* -------------------------------------------------------- AbstractString
\* Calls made on one string, the lengths of the strings given to it, and the
\* template parameter L of the strings: 0 is the dynamic string.
MaxStringCalls == 3
SourceLengths == {0, 4, 8}
StringL == {0, 4}

\* sizeof(T) of the characters
SizeofT == 1

\* Addresses: buf_ of the string's context_, buf_ of the temporary Context
\* of a call, the caller's characters, and the first buffer A::allocate
\* returns; every later one is a new address.
OwnBuf == 1
TempBuf == 2
CallerBuf == 3
FirstAllocated == 4

\* Context::Context()
NewContext == [str |-> NULLPTR, len |-> 0, max_ |-> 0]

\* Context::calculateSize(len)
calculateSize(len) ==
    LET size == len * SizeofT + SizeofT
    IN  IF size % 8 # 0 THEN (size - (size % 8)) + 8 ELSE size

\* Context::calculateLength(size)
calculateLength(size) ==
    LET len == size \div SizeofT
    IN  IF len > 1 THEN len - 1 ELSE 0

\* Context::isFit(len)
isFit(c, len) == ~(len > c.max_)

\* Context::isAllocated()
isAllocated(c) == c.str # NULLPTR

\* Context::allocate(length) on a Context c of a string with parameter L;
\* got is what A::allocate returns when it is called
ContextAllocate(L, c, length, got) ==
    IF L = 0
    THEN IF c.str = NULLPTR
         THEN IF got = NULLPTR
              THEN [ok |-> FALSE, c |-> c, asked |-> TRUE]
              ELSE [ok |-> TRUE, asked |-> TRUE,
                    c |-> [str |-> got, len |-> length,
                           max_ |-> calculateLength(calculateSize(length))]]
         ELSE [ok |-> FALSE, c |-> c, asked |-> FALSE]
    ELSE IF c.str # NULLPTR \/ length > L
         THEN [ok |-> FALSE, c |-> c, asked |-> FALSE]
         ELSE [ok |-> TRUE, asked |-> FALSE,
               c |-> [str |-> TempBuf, len |-> length, max_ |-> L]]

\* Context::mirror(obj) on the string's context_
ContextMirror(L, obj) ==
    IF L = 0
    THEN [str |-> obj.str, len |-> obj.len, max_ |-> obj.max_]
    ELSE [str |-> IF obj.str # NULLPTR THEN OwnBuf ELSE NULLPTR,
          len |-> obj.len, max_ |-> obj.max_]

\* context_.free() of the string s: the dynamic string passes its buffer to
\* A::free
ContextFree(s) ==
    IF s.L = 0
    THEN IF s.context_.str # NULLPTR
         THEN [s EXCEPT !.frees = Append(@, s.context_.str), !.context_ = NewContext]
         ELSE s
    ELSE [s EXCEPT !.context_ = NewContext]

\* The buffers passed to A::free so far
Freed(s) == {s.frees[i] : i \in DOMAIN s.frees}

\* AbstractBaseString::copy(dst, src) and concatenate(dst, src) write the
\* characters at dst and read those at src; an access to a buffer that was
\* passed to A::free is recorded
Touch(s, ptrs) == [s EXCEPT !.used = @ \cup (ptrs \cap Freed(s))]

\* The temporary Context of a call takes what A::allocate returned
Obtain(s, t) ==
    IF t.asked /\ t.ok THEN [s EXCEPT !.got = @ \cup {t.c.str}] ELSE s

\* The result of a call and the string after it
Returned(s, res) == [ret |-> res, s |-> s]

\* copy(str) freeing the string's buffer before the new one is allocated
StringCopyFreesFirst(s, src, got) ==
    IF s.own /\ src.ptr # NULLPTR
    THEN IF ~isFit(s.context_, src.len)
         THEN LET t == ContextAllocate(s.L, NewContext, src.len, got)
                  f == ContextFree(Obtain(s, t))
              IN  IF t.ok
                  THEN Returned(Touch([f EXCEPT !.context_ = ContextMirror(s.L, t.c)],
                                      {t.c.str, src.ptr}), TRUE)
                  ELSE Returned(f, FALSE)
         ELSE Returned(Touch([s EXCEPT !.context_.len = src.len],
                             {s.context_.str, src.ptr}), TRUE)
    ELSE Returned(s, FALSE)

\* AbstractString::copy(str): src is the address and the length of str
StringCopy(s, src, got) ==
    IF s.own /\ src.ptr # NULLPTR
    THEN IF ~isFit(s.context_, src.len)
         THEN LET t == ContextAllocate(s.L, NewContext, src.len, got)
              IN  IF t.ok
                  THEN LET f == ContextFree(Obtain(s, t))
                           m == [f EXCEPT !.context_ = ContextMirror(s.L, t.c)]
                       IN  Returned(Touch(m, {m.context_.str, src.ptr}), TRUE)
                  ELSE Returned(s, FALSE)
         ELSE Returned(Touch([s EXCEPT !.context_.len = src.len],
                             {s.context_.str, src.ptr}), TRUE)
    ELSE Returned(s, FALSE)

\* AbstractString::concatenate(str)
StringConcatenate(s, src, got) ==
    IF s.own /\ src.ptr # NULLPTR
    THEN IF ~isAllocated(s.context_)
         THEN StringCopy(s, src, got)
         ELSE LET len == src.len + s.context_.len
              IN  IF ~isFit(s.context_, len)
                  THEN LET t == ContextAllocate(s.L, NewContext, len, got)
                       IN  IF t.ok
                           THEN LET c == Touch(Obtain(s, t), {t.c.str, s.context_.str})
                                    f == ContextFree(c)
                                    m == [f EXCEPT !.context_ = ContextMirror(s.L, t.c)]
                                IN  Returned(Touch(m, {m.context_.str, src.ptr}), TRUE)
                           ELSE Returned(s, FALSE)
                  ELSE Returned(Touch([s EXCEPT !.context_.len = len],
                                      {s.context_.str, src.ptr}), TRUE)
    ELSE Returned(s, FALSE)

\* What a caller passes: no string, characters of its own, or the
\* characters of this very string, as getChar() returns them
Sources(s) ==
    {[kind |-> "null", ptr |-> NULLPTR, len |-> 0]}
    \cup {[kind |-> "caller", ptr |-> CallerBuf, len |-> n] : n \in SourceLengths}
    \cup (IF s.context_.str # NULLPTR
          THEN {[kind |-> "self", ptr |-> s.context_.str, len |-> s.context_.len]}
          ELSE {})

\* What A::allocate can return to the string s: null or a new buffer
Allocated(s) == {NULLPTR, FirstAllocated + Cardinality(s.got)}

\* A string after AbstractString(): Object<A> under it constructed or not
InitString ==
    /\ InitOthers
    /\ sp = NoShared
    /\ al = NoAlign

StringNew(L, own) ==
    /\ string = NoString
    /\ string' = [pc |-> "alive", L |-> L, own |-> own, context_ |-> NewContext,
                  n |-> 0, got |-> {}, frees |-> <<>>, used |-> {},
                  last |-> [fn |-> "new", ret |-> own, src |-> "null", len |-> 0,
                            before |-> NewContext, frees |-> <<>>]]
    /\ UNCHANGED <<Region0, val, freed, sp, al, snap, calc, guard>>

\* One call of copy or concatenate and what it is remembered by
Called(fn, r, src) ==
    [r.s EXCEPT !.n = @ + 1,
                !.last = [fn |-> fn, ret |-> r.ret, src |-> src.kind, len |-> src.len,
                          before |-> string.context_, frees |-> string.frees]]

Copy(src, got) ==
    /\ string.pc = "alive"
    /\ string.n < MaxStringCalls
    /\ src \in Sources(string)
    /\ got \in Allocated(string)
    /\ string' = Called("copy", StringCopy(string, src, got), src)
    /\ UNCHANGED <<Region0, val, freed, sp, al, snap, calc, guard>>

Concatenate(src, got) ==
    /\ string.pc = "alive"
    /\ string.n < MaxStringCalls
    /\ src \in Sources(string)
    /\ got \in Allocated(string)
    /\ string' = Called("concatenate", StringConcatenate(string, src, got), src)
    /\ UNCHANGED <<Region0, val, freed, sp, al, snap, calc, guard>>

\* ~AbstractString(): context_.free()
StringDelete ==
    /\ string.pc = "alive"
    /\ string' = [ContextFree(string) EXCEPT !.pc = "gone", !.last.fn = "delete"]
    /\ UNCHANGED <<Region0, val, freed, sp, al, snap, calc, guard>>

\* Every source a call can be given, whatever the string holds
AnySource ==
    [kind : {"null", "caller", "self"},
     ptr : 0..(FirstAllocated + MaxStringCalls + 1),
     len : 0..((MaxStringCalls + 1) * 8)]

NextString ==
    \/ \E L \in StringL, own \in BOOLEAN : StringNew(L, own)
    \/ \E src \in AnySource, got \in 0..(FirstAllocated + MaxStringCalls + 1) :
           Copy(src, got)
    \/ \E src \in AnySource, got \in 0..(FirstAllocated + MaxStringCalls + 1) :
           Concatenate(src, got)
    \/ StringDelete

SpecString == InitString /\ [][NextString]_vars

\* ---------------------------------------------------- the memory validator
\* Total sizes of the Regions whose usable area is validated.
ValTotals == {112, 120}

\* How a cell of the backing memory behaves: it holds what is written; a bit
\* of it reads 0 or 1 whatever is written; its top bit, once set, stays set;
\* it is decoded onto the first cell of the range; or no memory answers.
CellKinds == {"good", "stuck0bit6", "stuck0bit7", "stuck1bit0", "sticky7", "alias", "absent"}

HasBit(v, b) == (v \div b) % 2 = 1

\* What a cell of the given kind holds once v is written over old
Stored(kind, old, v) ==
    CASE kind = "stuck0bit6" -> IF HasBit(v, 64) THEN v - 64 ELSE v
      [] kind = "stuck0bit7" -> IF HasBit(v, 128) THEN v - 128 ELSE v
      [] kind = "stuck1bit0" -> IF HasBit(v, 1) THEN v ELSE v + 1
      [] kind = "sticky7"    -> IF HasBit(old, 128) /\ ~HasBit(v, 128) THEN v + 128 ELSE v
      [] kind = "absent"     -> CellMod - 1
      [] OTHER               -> v

\* The cell that answers at index i
Target(kinds, i) == IF kinds[i] = "alias" THEN 0 ELSE i

\* ptr[i] = v  and  ptr[i]
Poke(c, kinds, i, v) ==
    [c EXCEPT ![Target(kinds, i)] = Stored(kinds[Target(kinds, i)], @, v)]

Peek(c, kinds, i) == c[Target(kinds, i)]

\* The passes with the zero pass writing 0xaaaaaaaa once more
PatternNoZero(p, i) ==
    CASE p = 1 -> i % CellMod
      [] p = 2 -> 1431655765 % CellMod
      [] OTHER -> (2 * (1431655765 % CellMod)) % CellMod

\* The value pass p writes to ptr[i]: static_cast<cell_t>(i & mask),
\* static_cast<cell_t>(0x55555555 & mask), static_cast<cell_t>(0xaaaaaaaa & mask)
\* (0xaaaaaaaa is twice 0x55555555), 0x00
Pattern(p, i) ==
    CASE p = 1 -> i % CellMod
      [] p = 2 -> 1431655765 % CellMod
      [] p = 3 -> (2 * (1431655765 % CellMod)) % CellMod
      [] OTHER -> 0

\* new (addr) Heap(size) has run operator new and the member initializers;
\* construct() is about to test the usable area, one cell of which may be
\* faulty.
InitValidator ==
    \E isize \in ValTotals, fill \in {0, CellMod - 1}, kind \in CellKinds :
        LET t    == HeapOperatorNew(64, TRUE)
            d    == HeapData(isize, NULLPTR)
            size == d.size
        IN  \E at \in {0, 1, size - 1} :
            /\ this = t
            /\ data_ = d
            /\ mem = EmptyMem
            /\ toggle = NULLPTR
            /\ enabled = TRUE
            /\ ctor = [addr |-> 64, size |-> isize, hdrGood |-> TRUE,
                       memGood |-> FALSE, ok |-> FALSE]
            /\ live = EmptyBag
            /\ last = [op |-> "new", size |-> isize, ptr |-> 64, ret |-> t, tog |-> <<>>]
            /\ calls = 0
            /\ scenario = ScenarioOff
            /\ thr = [c \in Contexts |-> Idle]
            /\ val = [pc |-> "write", pass |-> 1, i |-> 0, size |-> size,
                      cells |-> [i \in 0..(size - 1) |-> fill],
                      kinds |-> [i \in 0..(size - 1) |-> IF i = at THEN kind ELSE "good"],
                      result |-> FALSE, log |-> [p \in 1..4 |-> <<>>]]
            /\ freed = {}
            /\ snap = NoSnap
            /\ calc = NoCall
            /\ guard = NoGuards
            /\ string = NoString
            /\ sp = NoShared
            /\ al = NoAlign

\* One turn of a write loop:  for( size_t i=0; i<size; i++) ptr[i] = pattern;
ValWrite ==
    /\ val.pc = "write"
    /\ val' = [val EXCEPT !.cells = Poke(@, val.kinds, val.i, Pattern(val.pass, val.i)),
                          !.i = IF val.i + 1 < val.size THEN @ + 1 ELSE 0,
                          !.pc = IF val.i + 1 < val.size THEN @ ELSE "read"]
    /\ UNCHANGED <<this, data_, mem, toggle, enabled, ctor, live, last, calls, scenario, thr, freed, sp, al, snap, calc, guard, string>>

\* One turn of a read loop:  if(ptr[i] != pattern) return false;  after the
\* last turn of the last pass, return true. log keeps the values read.
ValRead ==
    /\ val.pc = "read"
    /\ LET v    == Peek(val.cells, val.kinds, val.i)
           ok   == v = Pattern(val.pass, val.i)
           more == val.i + 1 < val.size
       IN  val' = [val EXCEPT !.log[val.pass] = Append(@, v),
                              !.result = ok /\ ~more /\ val.pass = 4,
                              !.i = IF ok /\ more THEN @ + 1 ELSE IF ok /\ val.pass < 4 THEN 0 ELSE @,
                              !.pass = IF ok /\ ~more /\ val.pass < 4 THEN @ + 1 ELSE @,
                              !.pc = IF ~ok \/ (~more /\ val.pass = 4) THEN "return"
                                     ELSE IF more THEN "read" ELSE "write"]
    /\ UNCHANGED <<this, data_, mem, toggle, enabled, ctor, live, last, calls, scenario, thr, freed, sp, al, snap, calc, guard, string>>

\* construct() after isMemoryAvailable() returned, and the constructor's end
ValConstruct ==
    /\ val.pc = "return"
    /\ LET h == HeapCtor(this, ctor.size, data_.toggle, val.result)
       IN  /\ data_' = h.data
           /\ mem' = h.mem
           /\ ctor' = [ctor EXCEPT !.memGood = val.result, !.ok = h.ok]
    /\ val' = [val EXCEPT !.pc = "done"]
    /\ UNCHANGED <<this, toggle, enabled, live, last, calls, scenario, thr, freed, sp, al, snap, calc, guard, string>>

NextValidator == ValWrite \/ ValRead \/ ValConstruct

SpecValidator == InitValidator /\ [][NextValidator]_vars

\* ------------------------------------------------------------ observations
\* The chain of the Region, as the sequence of its Blocks' addresses
Chain == ChainFrom(mem, getFirstBlock(this), Cardinality(DOMAIN mem))

ChainSet == {Chain[i] : i \in DOMAIN Chain}

\* The chain is the first Block alone, free, unlinked, of capacity cap
SingleFreeBlock(cap) ==
    /\ Chain = <<getFirstBlock(this)>>
    /\ ~isUsed(mem[getFirstBlock(this)])
    /\ mem[getFirstBlock(this)].prev = NULLPTR
    /\ mem[getFirstBlock(this)].next = NULLPTR
    /\ mem[getFirstBlock(this)].size = cap

\* n rounded up to a multiple of 8, as a size_t
Rounded(n) == Wrap(((n + 7) \div 8) * 8)

\* The capacity of the Block whose payload starts at ptr
CapacityAt(ptr) == mem[heapBlock(ptr)].size

\* [p, p + a) and [q, q + b) share no address (addresses are modulo SizeMod)
Disjoint(p, a, q, b) == a = 0 \/ b = 0 \/ (Wrap(q - p) >= a /\ Wrap(p - q) >= b)

Min(S) == CHOOSE x \in S : \A y \in S : x <= y

\* This step is a call of allocate with a null pass-through address
AllocateCall == calls' = calls + 1 /\ last'.op = "allocate" /\ last'.ptr = NULLPTR

\* ------------------------------------------------------------------ claims
\* C1: the address ranges [p, p + alignedSize) of any two live allocations
\* are disjoint.
LiveAllocationsDisjoint ==
    \A r1, r2 \in BagToSet(live) :
        (r1 # r2 \/ CopiesIn(r1, live) > 1)
            => Disjoint(r1.ptr, r1.aligned, r2.ptr, r2.aligned)

\* C1 witness: two live allocations of non-zero size, after a free.
TwoLiveAfterFree ==
    /\ Constructed
    /\ last.op = "free" /\ last.ptr # NULLPTR
    /\ \E r1, r2 \in BagToSet(live) : r1.ptr # r2.ptr /\ r1.aligned > 0 /\ r2.aligned > 0

\* C2: once every outstanding allocation has been freed, the chain is the
\* first Block alone, free, with prev and next null and capacity equal to
\* the usable size minus one Block header.
AllFreedIsOneBlock ==
    (Constructed /\ live = EmptyBag)
        => SingleFreeBlock(Wrap(data_.size - SizeofHeapBlock))

\* C2 witness: two allocations were made and both have been freed.
TwoAllocatedTwoFreed ==
    /\ Constructed /\ live = EmptyBag /\ calls = 4
    /\ last.op = "free" /\ last.ptr # NULLPTR /\ last.ptr # BlockData(getFirstBlock(this))

\* C3: no free Block of the chain has a next neighbour that is free too.
NoAdjacentFree ==
    Constructed =>
        \A a \in ChainSet :
            (~isUsed(mem[a]) /\ mem[a].next # NULLPTR) => isUsed(mem[mem[a].next])

\* C3 witness: after a free, a free Block lies between two used Blocks.
FreeBetweenUsed ==
    /\ Constructed /\ last.op = "free"
    /\ \E a \in ChainSet :
        /\ ~isUsed(mem[a])
        /\ mem[a].prev # NULLPTR /\ isUsed(mem[mem[a].prev])
        /\ mem[a].next # NULLPTR /\ isUsed(mem[mem[a].next])

\* C4: a successful allocate(n) returns the payload address of the
\* lowest-address Block that is free and whose capacity is at least n rounded
\* up to a multiple of 8; and on a fresh Region, after allocate(64) = p1,
\* allocate(128) = p2, free(p1), allocate(32) returns p1, with
\* p2 - p1 >= 64 + headerSize.
FirstFitStep ==
    (AllocateCall /\ last'.ret # NULLPTR) =>
        LET fits == {a \in ChainSet : ~isUsed(mem[a]) /\ mem[a].size >= Rounded(last'.size)}
        IN  fits # {} /\ last'.ret = BlockData(Min(fits))

ScenarioReuses ==
    /\ scenario.step \in 2..4 => scenario.p2 - scenario.p1 >= 64 + SizeofHeapBlock
    /\ scenario.step = 4 => scenario.r = scenario.p1

OutOfMemoryStep ==
    (/\ AllocateCall /\ Constructed /\ last'.size # 0
     /\ ~ \E a \in ChainSet : ~isUsed(mem[a]) /\ mem[a].size >= last'.size)
        => (last'.ret = NULLPTR /\ mem' = mem)

OutOfMemoryReturnsNull == [][OutOfMemoryStep]_vars

\* C6: allocate(0) with a null pass-through address returns null and leaves
\* every Block unchanged.
AllocateZeroStep ==
    (AllocateCall /\ last'.size = 0) => (last'.ret = NULLPTR /\ mem' = mem)

AllocateZeroIsNull == [][AllocateZeroStep]_vars

\* C6 witness: allocate(0) was called on a chain of several Blocks, inside
\* the toggle bracket.
AllocateZeroCalled ==
    /\ Constructed /\ Len(Chain) >= 3
    /\ last.op = "allocate" /\ last.size = 0 /\ last.ptr = NULLPTR
    /\ last.tog = <<"disable", "enable">>

UsableSize == AndNot7(ctor.size) - SizeofHeap

GoodArguments ==
    /\ ctor.addr # NULLPTR /\ ctor.addr % 8 = 0
    /\ UsableSize >= SizeofHeapBlock + 16
    /\ ctor.hdrGood /\ ctor.memGood

ConstructionSucceeds ==
    (calls = 0 /\ GoodArguments)
        => (Constructed /\ SingleFreeBlock(UsableSize - SizeofHeapBlock))

\* C8 witness: the smallest total size that is large enough was constructed.
SmallestRegionConstructed ==
    calls = 0 /\ GoodArguments /\ UsableSize = SizeofHeapBlock + 16 /\ Constructed

\* C9: construction yields no constructed Region when the address is not
\* 8-aligned, the validator fails or the total size is too small, for every
\* total size from 0 upward; afterwards allocate returns null and free is a
\* no-op.
ConstructionRejects ==
    (\/ ctor.addr % 8 # 0
     \/ ~ctor.hdrGood
     \/ ~ctor.memGood
     \/ UsableSize < SizeofHeapBlock + 16)
        => /\ ~Constructed
           /\ last.op = "allocate" => last.ret = NULLPTR
           /\ live = EmptyBag
           /\ mem = EmptyMem

\* C10: once construction has failed, isConstructed() stays false, every
\* allocate returns null, and no call writes the memory or invokes the toggle.
ConstructionFailed == this # NULLPTR /\ ~ctor.ok

FailedCallStep ==
    (ConstructionFailed /\ calls' = calls + 1) =>
        /\ last'.op = "allocate" => last'.ret = NULLPTR
        /\ mem' = mem
        /\ enabled' = enabled
        /\ last'.tog = <<>>

FailureIsPermanent ==
    [](ConstructionFailed => ~Constructed) /\ [][FailedCallStep]_vars

\* C10 witness: on a failed Region with a registered toggle, allocate was
\* called with a non-null pass-through address after other calls.
FailedRegionCalled ==
    /\ ConstructionFailed /\ calls >= 3
    /\ data_.toggle # NULLPTR /\ toggle # NULLPTR
    /\ last.op = "allocate" /\ last.ptr # NULLPTR

\* C11: on a constructed Region, allocate(size, ptr) with ptr not null
\* returns ptr for every size, leaves every Block unchanged and does not
\* invoke the toggle.
PassThroughStep ==
    (Constructed /\ calls' = calls + 1 /\ last'.op = "allocate" /\ last'.ptr # NULLPTR) =>
        /\ last'.ret = last'.ptr
        /\ mem' = mem
        /\ enabled' = enabled
        /\ last'.tog = <<>>

PassThroughReturnsPtr == [][PassThroughStep]_vars

\* C11 witness: with a registered toggle and a chain of several Blocks,
\* allocate(0, ptr) was called with ptr not null.
PassThroughCalled ==
    /\ Constructed /\ Registered /\ Len(Chain) >= 2
    /\ last.op = "allocate" /\ last.size = 0 /\ last.ptr # NULLPTR
    /\ last.ret = last.ptr

\* C12: free(null) changes nothing in any state: the value of
\* isConstructed(), the Region descriptor, every Block, and the toggle's
\* enablement state stay as they were, and the toggle is not invoked.
FreeNullStep ==
    (calls' = calls + 1 /\ last'.op = "free" /\ last'.ptr = NULLPTR) =>
        /\ Constructed' = Constructed
        /\ mem' = mem
        /\ data_' = data_
        /\ enabled' = enabled
        /\ last'.tog = <<>>

FreeNullIsNoOp == [][FreeNullStep]_vars

\* C12 witness: free(null) was called with a registered toggle, preemption
\* enabled and a used Block in the chain.
FreeNullCalled ==
    /\ Constructed /\ Registered /\ enabled
    /\ \E a \in ChainSet : isUsed(mem[a])
    /\ last.op = "free" /\ last.ptr = NULLPTR

\* The context c is between its disable() and its enable()
InGuard(c) == thr[c].pc # "idle" /\ thr[c].tog = <<"disable">>

\* C13: with a registered toggle, every step of allocate or free that
\* writes a Block header is taken by a call that has made its disable() and
\* not yet its enable(), with preemption disabled before and after the step.
HeaderWriteStep ==
    (Registered /\ mem' # mem) =>
        \E c \in Contexts :
            /\ thr[c].pc \in {"split", "mark", "free"}
            /\ InGuard(c) /\ thr'[c].tog = <<"disable">>
            /\ ~enabled /\ ~enabled'

WritesInsideGuard == [][HeaderWriteStep]_vars

\* C13 witness: a call that was made with preemption enabled has split a
\* Block and is about to set the used flag, inside its guard.
SplitInsideGuard ==
    \E c \in Contexts :
        /\ thr[c].pc = "mark" /\ InGuard(c) /\ thr[c].is
        /\ mem[thr[c].curr].next # NULLPTR
        /\ mem[thr[c].curr].size = AlignSize(thr[c].size)
        /\ Len(Chain) >= 3

\* C14: with a registered toggle, at most one call is inside its guard, and
\* each call leaves the chain and returns the value that its whole chain
\* operation gives when applied at once to the chain it found on entering
\* the guard: the calls take effect one after another in the order of their
\* disable(); and no address is held by two live allocations.
OneInGuard == \A c, d \in Contexts : (InGuard(c) /\ InGuard(d)) => c = d

TakesEffectAtOnce ==
    \A c \in Contexts :
        (thr[c].pc = "enable" /\ InGuard(c)) =>
            (mem = thr[c].expect.mem /\ thr[c].ret = thr[c].expect.ret)

DistinctLive ==
    \A r1, r2 \in BagToSet(live) :
        CopiesIn(r1, live) = 1 /\ (r1 # r2 => r1.ptr # r2.ptr)

Linearizable == OneInGuard /\ TakesEffectAtOnce /\ DistinctLive

\* C14 witness: the handler preempted the task between the task's entry to
\* allocate or free and its disable(), and has allocated a Block while an
\* earlier allocation is live.
HandlerPreemptedTask ==
    /\ thr["task"].pc = "disable"
    /\ thr["isr"].pc = "enable" /\ thr["isr"].op = "allocate"
    /\ thr["isr"].ret # NULLPTR
    /\ live # EmptyBag

\* C17: every allocate and free on a constructed Region returns, and no
\* statement of a call waits: the scan visits the Blocks of the chain in
\* chain order from the first Block, each at most once; free goes from its
\* one chain statement to enable(); a context that runs always has its next
\* statement enabled; and every call that was entered comes to its return.
NoDuplicates(seq) == \A i, j \in DOMAIN seq : i # j => seq[i] # seq[j]

IsPrefix(a, b) == Len(a) <= Len(b) /\ \A i \in DOMAIN a : a[i] = b[i]

ScanVisitsOnce ==
    \A c \in Contexts :
        /\ NoDuplicates(thr[c].visited)
        /\ IsPrefix(thr[c].visited, Chain)
        /\ thr[c].op = "free" => thr[c].visited = <<>>

NeverWaits ==
    \A c \in Contexts : (thr[c].pc # "idle" /\ Runs(c)) => ENABLED Continue(c)

FreeStepOnce ==
    \A c \in Contexts :
        (thr[c].pc = "free" /\ thr'[c] # thr[c]) => thr'[c].pc = "enable"

CallsReturn == \A c \in Contexts : (thr[c].pc # "idle") ~> (thr[c].pc = "idle")

CallsTerminate ==
    [](ScanVisitsOnce /\ NeverWaits) /\ [][FreeStepOnce]_vars /\ CallsReturn

\* C17 witness: a scan passed two Blocks and stopped on the third.
ScanPassedTwoBlocks ==
    \E c \in Contexts :
        /\ thr[c].pc = "enable" /\ thr[c].op = "allocate"
        /\ Len(thr[c].visited) = 3 /\ thr[c].ret # NULLPTR

\* This step is a call of allocate or free
CallStep == calls' = calls + 1 /\ last'.op \in {"allocate", "free"}

\* The call of this step passes the early returns and enters the guard
EntersGuard ==
    /\ Constructed
    /\ \/ last'.op = "allocate" /\ last'.ptr = NULLPTR
       \/ last'.op = "free" /\ last'.ptr # NULLPTR

\* C15: for either prior enablement state, when allocate or free returns
\* the state is what it was before the call; a call that enters the guard
\* with a registered toggle issues exactly one disable() and then exactly
\* one enable(), every other call issues neither.
GuardRestoresStep ==
    CallStep =>
        /\ enabled' = enabled
        /\ last'.tog = IF Registered /\ EntersGuard
                       THEN <<"disable", "enable">> ELSE <<>>

GuardRestoresState == [][GuardRestoresStep]_vars

\* C15 witness: a call made with preemption already disabled allocated a
\* Block inside the guard and returned with preemption still disabled.
NestedGuardReturned ==
    /\ Registered /\ ~enabled
    /\ last.op = "allocate" /\ last.ptr = NULLPTR /\ last.ret # NULLPTR
    /\ last.tog = <<"disable", "enable">>

\* C16: while no toggle is registered (no reference held, or the pointer
\* referred to is null at the call), allocate and free call neither
\* disable() nor enable() and leave the enablement state alone, yet do the
\* chain operation; and a call made once the pointer referred to is
\* non-null goes through disable() and enable().
ChainOperationDone ==
    IF last'.op = "allocate"
    THEN LET res == alloc(mem, getFirstBlock(this), last'.size)
         IN  mem' = res.mem /\ last'.ret = res.ret
    ELSE mem' = free(mem, heapBlock(last'.ptr), TRUE)

UnregisteredStep ==
    (CallStep /\ ~Registered) =>
        /\ last'.tog = <<>>
        /\ enabled' = enabled
        /\ EntersGuard => ChainOperationDone

RereadStep ==
    (CallStep /\ Registered /\ EntersGuard) =>
        (last'.tog = <<"disable", "enable">> /\ ChainOperationDone)

ToggleIsOptional == [][UnregisteredStep /\ RereadStep]_vars

\* C16 witness: the Region holds a reference and the pointer referred to
\* became non-null after a call that, finding it null, allocated a Block
\* without calling the toggle.
ToggleAppearedAfterCall ==
    /\ Constructed /\ Registered
    /\ last.op = "allocate" /\ last.ptr = NULLPTR /\ last.ret # NULLPTR
    /\ last.tog = <<>>
    /\ isUsed(mem[heapBlock(last.ret)])

\* C20: isConstructed() is true exactly when the Region's own tag is
\* HEAP_KEY and the first Block's tag is BLOCK_KEY; once either tag is
\* cleared or overwritten, allocate returns null (with a non-null
\* pass-through address too), and free changes no Block; neither calls the
\* toggle.
FirstTagIntact ==
    /\ getFirstBlock(this) \in DOMAIN mem
    /\ mem[getFirstBlock(this)].key = BLOCK_KEY

TagsDecide ==
    this # NULLPTR =>
        (isConstructed(this, data_, mem) <=> (data_.key = HEAP_KEY /\ FirstTagIntact))

BadTagStep ==
    (CallStep /\ ~(data_.key = HEAP_KEY /\ FirstTagIntact)) =>
        /\ last'.op = "allocate" => last'.ret = NULLPTR
        /\ mem' = mem
        /\ enabled' = enabled
        /\ last'.tog = <<>>

TagsGuardCalls == []TagsDecide /\ [][BadTagStep]_vars

\* C20 witness: on a Region that was constructed, the first Block's tag
\* alone was overwritten while an allocation was live, and free was then
\* called on that allocation.
FreeAfterBlockTagLost ==
    /\ ctor.ok /\ data_.key = HEAP_KEY /\ ~FirstTagIntact
    /\ last.op = "free" /\ last.ptr # NULLPTR
    /\ heapBlock(last.ptr) \in DOMAIN mem /\ isUsed(mem[heapBlock(last.ptr)])

\* The usable area of the Region: the bytes after the Heap object
UsableBase == getFirstBlock(this)
UsableEnd == getFirstBlock(this) + data_.size

\* C18: the n bytes [p, p + n) of every live allocation lie inside the
\* usable area and share no byte with the header of any Block of the chain
\* (so no later allocate or free, which write headers only, writes them).
PayloadProtected ==
    Constructed =>
        \A r \in BagToSet(live) :
            /\ r.ptr >= UsableBase /\ r.ptr + r.size <= UsableEnd
            /\ \A a \in ChainSet :
                a + SizeofHeapBlock <= r.ptr \/ r.ptr + r.size <= a

\* C19: in a constructed Region the usable size and every Block's capacity
\* are multiples of 8, and every Block's header address and payload address,
\* and every address allocate returned, is a multiple of 8.
EverythingAligned ==
    Constructed =>
        /\ data_.size % 8 = 0
        /\ \A a \in ChainSet :
            a % 8 = 0 /\ BlockData(a) % 8 = 0 /\ mem[a].size % 8 = 0
        /\ \A r \in BagToSet(live) : r.ptr % 8 = 0
        /\ (last.op = "allocate" /\ last.ptr = NULLPTR) => last.ret % 8 = 0

\* C19 witness: a Region whose total size is not a multiple of 8, with a
\* live allocation of a size that is not a multiple of 8.
OddSizesAligned ==
    /\ Constructed /\ ctor.size % 8 # 0
    /\ \E r \in BagToSet(live) : r.size % 8 # 0 /\ CapacityAt(r.ptr) >= r.size

\* The value the claim names for pass p at cell i: the index, 0x55, 0xAA, zero
NamedPattern(p, i) == <<i % 256, 85, 170, 0>>[p]

\* Cell i read back, in pass p, the value the pass wrote
ReadBack(p, i) == val.log[p][i + 1] = NamedPattern(p, i)

\* Pass p read every cell of the range and each read back its value
PassClean(p) ==
    /\ Len(val.log[p]) = val.size
    /\ \A i \in 0..(val.size - 1) : ReadBack(p, i)

\* C21: the validator returns true exactly when all four passes were made
\* over the whole range and in each of them every cell read back the value
\* of that pass; it returns false at the first cell that mismatches, reading
\* no further cell and making no further pass; and the Region is then not
\* constructed.
ValidatorDecides ==
    val.pc \in {"return", "done"} =>
        /\ val.result <=> \A p \in 1..4 : PassClean(p)
        /\ ~val.result =>
            /\ \A p \in 1..(val.pass - 1) : PassClean(p)
            /\ Len(val.log[val.pass]) = val.i + 1
            /\ \A i \in 0..(val.i - 1) : ReadBack(val.pass, i)
            /\ ~ReadBack(val.pass, val.i)
            /\ \A p \in (val.pass + 1)..4 : val.log[p] = <<>>
        /\ (val.pc = "done" /\ ~val.result) => (~Constructed /\ mem = EmptyMem)

\* C21 witness: a cell passed the first three passes, failed the zero pass,
\* and the Region is not constructed.
ZeroPassFailed ==
    /\ val.pc = "done" /\ ~val.result /\ val.pass = 4
    /\ ~Constructed

\* A call of free with a non-null address was made in this step
FreeCallStep == last'.op = "free" /\ calls' = calls + 1 /\ last'.ptr # NULLPTR

\* C22: free(address) on a constructed Region, where the header preceding
\* address carries a tag other than the Block tag, leaves every Block's used
\* flag, capacity and links as they were.
BadTagFreeStep ==
    (FreeCallStep /\ Constructed /\ Untagged(last'.ptr)) => mem' = mem

BadTagFreeChangesNothing == [][BadTagFreeStep]_vars

\* C22 witness: free was called with the address of a live allocation whose
\* header had lost its tag, and the Block is still marked used.
FreedWithTagLost ==
    /\ last.op = "free" /\ last.ptr \in freed
    /\ Constructed
    /\ heapBlock(last.ptr) \in ChainSet
    /\ ~BlockIsConstructed(mem[heapBlock(last.ptr)])
    /\ isUsed(mem[heapBlock(last.ptr)])

\* C23: free(address) of an address allocate returned that is live no more
\* (freed already, its Block a free Block of the chain or absorbed into its
\* previous neighbour) leaves the chain's Blocks, links, capacities and used
\* flags as they were.
StaleFreeStep ==
    (FreeCallStep /\ Constructed /\ last'.ptr \in Stale)
        => [a \in ChainSet' |-> mem'[a]] = [a \in ChainSet |-> mem[a]]

DoubleFreeChangesNothing == [][StaleFreeStep]_vars

\* The SharedPtr instances that share the control block cb
Sharers(cb) == {s \in Held : sp.inst[s].constructed /\ sp.inst[s].cb = cb}

\* The SharedPtr instances that manage the object o
Holders(o) == {s \in Held : get(World, sp.inst[s]) = o}

\* C24: whatever copy constructions, copy assignments and destructions of
\* constructed SharedPtr instances were made, getCount() is the number of
\* instances sharing the control block, and the control block and the
\* managed object are deleted once, when their last sharing instance is
\* destroyed or reassigned, never while an instance shares them.
SharedCountsHolders ==
    /\ \A s \in Held : sp.inst[s].constructed =>
            /\ sp.inst[s].cb # NULLPTR
            /\ getCount(World, sp.inst[s]) = Cardinality(Sharers(sp.inst[s].cb))
    /\ \A cb \in DOMAIN sp.cbs : sp.cbs[cb].constructed =>
            sp.cbs[cb].deletes = (IF Sharers(cb) = {} THEN 1 ELSE 0)
    /\ \A o \in DOMAIN sp.objs :
            sp.objs[o].deletes = (IF Holders(o) = {} THEN 1 ELSE 0)

\* C24 witness: one control block is shared by two instances while another
\* one, that was constructed, was deleted with its object.
SharedAndReleased ==
    \E c1, c2 \in DOMAIN sp.cbs :
        /\ Cardinality(Sharers(c1)) = 2
        /\ sp.cbs[c2].constructed /\ sp.cbs[c2].deletes = 1
        /\ sp.cbs[c2].pointer # NULLPTR
        /\ sp.objs[sp.cbs[c2].pointer].deletes = 1

\* C25: when SharedPtr(pointer) could not be constructed, the object passed
\* was deleted exactly once, and the SharedPtr is not constructed: get()
\* returns null and getCount() returns 0.
FailedConstructionCleansUp ==
    /\ \A o \in sp.failed : sp.objs[o].deletes = 1
    /\ \A s \in Held : sp.inst[s].born \in {"parent", "alloc", "cb"} =>
            /\ ~sp.inst[s].constructed
            /\ get(World, sp.inst[s]) = NULLPTR
            /\ getCount(World, sp.inst[s]) = 0

\* C25 witness: one construction failed for want of a control block, another
\* because its control block was not constructed; both objects are deleted.
TwoFailedConstructions ==
    \E s, t \in Held :
        /\ sp.inst[s].born = "alloc" /\ sp.inst[s].arg \in sp.failed
        /\ sp.inst[t].born = "cb" /\ sp.inst[t].arg \in sp.failed

\* C26: after obj++ an Align<T,S> that held the unsigned value v holds
\* (v + 1) mod 2^(8*S), and after obj-- it holds (v - 1) mod 2^(8*S), as
\* after ++obj and --obj.
PostfixStoresNeighbour ==
    /\ al.op = "obj++" => StoredValue(al.cells, 1) = (al.before + 1) % (2 ^ (8 * al.S))
    /\ al.op = "obj--" =>
            StoredValue(al.cells, 1) = (al.before + (2 ^ (8 * al.S)) - 1) % (2 ^ (8 * al.S))

\* The header b with the used flag set, and cleared
AsUsed(b) == [b EXCEPT !.attr = IF isUsed(b) THEN @ ELSE @ + 1]
AsFree(b) == [b EXCEPT !.attr = IF isUsed(b) THEN @ - 1 ELSE @]

\* C27: when allocate finds a free Block of capacity c for the aligned
\* request a and c >= a + headerSize, a new free Block of capacity
\* c - a - headerSize appears at payload start + a, linked between the found
\* Block and its former next, whose prev link now names the new Block; the
\* found Block has capacity a and is used. When c < a + headerSize only the
\* found Block's used flag changes. No other Block changes.
SplitOrMarkStep ==
    (AllocateCall /\ Constructed /\ last'.ret # NULLPTR) =>
        LET curr == heapBlock(last'.ret)
            a    == AlignSize(last'.size)
            c    == mem[curr].size
            nxt  == mem[curr].next
            nb   == BlockData(curr) + a
        IN  /\ curr \in ChainSet /\ ~isUsed(mem[curr]) /\ c >= a
            /\ IF c >= a + SizeofHeapBlock
               THEN /\ ChainSet' = ChainSet \cup {nb}
                    /\ nb \notin ChainSet
                    /\ mem'[nb] = [heap |-> mem[curr].heap, prev |-> curr, next |-> nxt,
                                   attr |-> 0, size |-> c - a - SizeofHeapBlock,
                                   key |-> BLOCK_KEY]
                    /\ mem'[curr] = AsUsed([mem[curr] EXCEPT !.next = nb, !.size = a])
                    /\ nxt # NULLPTR => mem'[nxt] = [mem[nxt] EXCEPT !.prev = nb]
                    /\ \A b \in ChainSet \ {curr, nxt} : mem'[b] = mem[b]
               ELSE /\ ChainSet' = ChainSet
                    /\ mem'[curr] = AsUsed(mem[curr])
                    /\ \A b \in ChainSet \ {curr} : mem'[b] = mem[b]

AllocateSplitsOrMarks == [][SplitOrMarkStep]_vars

\* C27 witness: an allocation split a Block that had a next Block; the new
\* free Block lies between the two and the next Block's prev link names it.
SplitBeforeNeighbour ==
    /\ Constructed /\ last.op = "allocate" /\ last.ptr = NULLPTR /\ last.ret # NULLPTR
    /\ LET curr == heapBlock(last.ret)
           nb   == BlockData(curr) + AlignSize(last.size)
       IN  /\ curr \in ChainSet
           /\ mem[curr].next = nb
           /\ ~isUsed(mem[nb])
           /\ mem[nb].next # NULLPTR
           /\ mem[mem[nb].next].prev = nb

\* C28: free of a live Block b does one of four things. prev and next both
\* free: prev grows by 2 * headerSize + b.capacity + next.capacity and is
\* linked to next's former next. Only prev free: prev grows by headerSize +
\* b.capacity and is linked to b's next. Only next free: b grows by
\* headerSize + next.capacity, is linked to next's former next and becomes
\* free. Neither: b becomes free. The new neighbour's prev link names the
\* Block that grew, and no other Block changes.
CoalesceStep ==
    (FreeCallStep /\ Constructed /\ last'.ptr \in LivePtrs) =>
        LET b  == heapBlock(last'.ptr)
            p  == mem[b].prev
            n  == mem[b].next
            pf == p # NULLPTR /\ ~isUsed(mem[p])
            nf == n # NULLPTR /\ ~isUsed(mem[n])
            nn == IF nf THEN mem[n].next ELSE n
            \* the Block that remains, the capacity added to it, the Blocks that go
            keep == IF pf THEN p ELSE b
            gain == (IF pf THEN SizeofHeapBlock + mem[b].size ELSE 0)
                  + (IF nf THEN SizeofHeapBlock + mem[n].size ELSE 0)
            gone == (IF pf THEN {b} ELSE {}) \cup (IF nf THEN {n} ELSE {})
        IN  /\ b \in ChainSet /\ isUsed(mem[b])
            /\ ChainSet' = ChainSet \ gone
            /\ mem'[keep] = AsFree([mem[keep] EXCEPT !.size = @ + gain, !.next = nn])
            /\ (nn # NULLPTR /\ gone # {}) => mem'[nn] = [mem[nn] EXCEPT !.prev = keep]
            /\ \A x \in ChainSet \ (gone \cup {keep} \cup (IF gone # {} THEN {nn} ELSE {})) :
                    mem'[x] = mem[x]

FreeCoalesces == [][CoalesceStep]_vars

\* C28 witness: a Block between a free Block and a used one was freed; the
\* previous Block absorbed it and the used one's prev link names that Block.
AbsorbedIntoPrev ==
    /\ Constructed /\ last.op = "free" /\ last.ptr # NULLPTR
    /\ heapBlock(last.ptr) \notin ChainSet
    /\ \E p \in ChainSet :
        /\ ~isUsed(mem[p])
        /\ p < heapBlock(last.ptr)
        /\ mem[p].next > heapBlock(last.ptr)
        /\ isUsed(mem[mem[p].next])
        /\ mem[mem[p].next].prev = p

\* C29: on a constructed Region on which free is called only for live
\* allocations, the next links from the first Block lead through Blocks at
\* strictly increasing addresses to null.
ChainAscends ==
    Constructed =>
        /\ \A i \in DOMAIN Chain : Chain[i] \in DOMAIN mem
        /\ \A i \in 1..(Len(Chain) - 1) : Chain[i] < Chain[i + 1]
        /\ Len(Chain) > 0
        /\ mem[Chain[Len(Chain)]].next = NULLPTR

\* C29 witness: a chain of three Blocks after the first of them was freed.
ThreeBlocksAscend ==
    /\ Constructed /\ Len(Chain) >= 3
    /\ last.op = "free" /\ last.ptr = BlockData(Chain[1])
    /\ ~isUsed(mem[Chain[1]])

\* The Region was constructed and its destructor has run
Destroyed == this # NULLPTR /\ ctor.ok /\ data_.key = 0

\* C30: the destructor clears the Region's own tag and nothing else: no
\* Block changes and no allocation is given up. From then on the Region is
\* not constructed, allocate returns null and free, also of an address that
\* was live, changes nothing.
DestroyStep ==
    /\ (ctor.ok /\ data_.key = HEAP_KEY /\ data_'.key = 0) =>
            /\ mem' = mem
            /\ live' = live
            /\ data_' = [data_ EXCEPT !.key = 0]
            /\ this' = this
    /\ Destroyed =>
            /\ ~isConstructed(this, data_, mem)
            /\ mem' = mem
            /\ data_'.key = 0
            /\ (CallStep /\ last'.op = "allocate") => last'.ret = NULLPTR

DestructorClearsOwnTag == [][DestroyStep]_vars

\* C30 witness: after the destructor ran on a Region whose tags were intact,
\* free was called with an address that was live; its Block is still used.
FreedAfterDestroy ==
    /\ Destroyed /\ FirstTagIntact
    /\ last.op = "free" /\ last.ptr # NULLPTR
    /\ heapBlock(last.ptr) \in DOMAIN mem /\ isUsed(mem[heapBlock(last.ptr)])

\* Sum of headerSize + capacity over the Blocks of the chain from index i on
RECURSIVE Footprint(_)
Footprint(i) ==
    IF i > Len(Chain) THEN 0
    ELSE SizeofHeapBlock + mem[Chain[i]].size + Footprint(i + 1)

\* C31: on a constructed Region on which free is called only for live
\* allocations, the Blocks of the chain tile the usable area: the first
\* Block starts at the Region's address plus the size of the Region header,
\* every next Block starts where the payload of the one before ends, the
\* last Block ends where the usable area ends, and the headers and
\* capacities add up to the usable size.
ChainTilesUsableArea ==
    Constructed =>
        /\ Len(Chain) > 0
        /\ Chain[1] = this + SizeofHeap
        /\ \A i \in 1..Len(Chain) :
            /\ Chain[i] \in DOMAIN mem
            /\ mem[Chain[i]].next =
                    (IF i < Len(Chain) THEN Chain[i] + SizeofHeapBlock + mem[Chain[i]].size
                     ELSE NULLPTR)
        /\ Chain[Len(Chain)] + SizeofHeapBlock + mem[Chain[Len(Chain)]].size = UsableEnd
        /\ Footprint(1) = data_.size

\* C31 witness: two used Blocks and a free remainder tile the usable area.
TiledByThree ==
    /\ Constructed /\ Len(Chain) = 3
    /\ isUsed(mem[Chain[1]]) /\ isUsed(mem[Chain[2]])
    /\ ~isUsed(mem[Chain[3]]) /\ mem[Chain[3]].size > 0

\* C32: on a constructed Region on which free is called only for live
\* allocations, the next Block of every Block names it as its prev, the
\* first Block has no prev and heads the chain, and every Block names the
\* Region as its owner.
LinksConsistent ==
    Constructed =>
        /\ Len(Chain) > 0
        /\ Chain[1] = getFirstBlock(this)
        /\ data_.block = Chain[1]
        /\ mem[Chain[1]].prev = NULLPTR
        /\ \A b \in ChainSet :
            /\ mem[b].heap = this
            /\ mem[b].next # NULLPTR =>
                    (mem[b].next \in DOMAIN mem /\ mem[mem[b].next].prev = b)

\* C32 witness: the Block allocated last lies between two other Blocks.
MiddleBlockLinked ==
    /\ Constructed /\ Len(Chain) >= 3
    /\ last.op = "allocate" /\ last.ptr = NULLPTR /\ last.ret = BlockData(Chain[2])
    /\ mem[Chain[2]].prev = Chain[1] /\ mem[Chain[3]].prev = Chain[2]

\* C33: when p = allocate(n) succeeded and free(p) is the next call, the
\* chain is what it was before the allocate: the same Blocks at the same
\* addresses, with the same capacities, links and used flags.
RoundTripRestores ==
    snap.done => Walk(mem, getFirstBlock(this)) = snap.chain

\* C33 witness: the allocation split a Block that lies behind a used one, and
\* was given back at once.
SplitUndone ==
    /\ snap.done /\ snap.split
    /\ Len(Chain) >= 2 /\ isUsed(mem[Chain[1]])
    /\ last.op = "free" /\ heapBlock(last.ptr) \in ChainSet
    /\ ~isUsed(mem[heapBlock(last.ptr)])

\* C34: for every requested size s from 1 to 2^w - 1 the size allocate
\* searches for is a multiple of 8, at least s and less than s + 8.
SearchedSizeCovers ==
    calc.fn = "AlignSize" =>
        /\ calc.ret % 8 = 0
        /\ calc.ret >= calc.arg
        /\ calc.ret < calc.arg + 8

\* C35: a Block the HeapBlock constructor initialised passes its own tag
\* check, with a size_t of 32 bits as with one of 64 bits.
FreshBlockPassesTagCheck ==
    calc.fn = "HeapBlock" => calc.pass

\* Calls of one name a guard made on its mutex
MadeBy(g, fn) == Cardinality({i \in DOMAIN guard[g].made : guard[g].made[i].fn = fn})

\* C36: a guard calls lock() at most once, in its constructor and only on a
\* constructed mutex; it calls unlock() once, in its destructor, exactly when
\* that lock() returned true, and never before it is destroyed; a guard whose
\* lock() failed or whose mutex is not constructed makes no unlock() at all.
GuardLocksAndUnlocksOnce ==
    \A g \in DOMAIN guard :
        LET made == guard[g].made
        IN  /\ MadeBy(g, "lock") <= 1
            /\ MadeBy(g, "lock") = 1 =>
                   /\ made[1] = [fn |-> "lock", at |-> "constructor"]
                   /\ guard[g].mutex
            /\ \A i \in DOMAIN made :
                   made[i].fn = "unlock" => made[i].at = "destructor" /\ i = Len(made)
            /\ guard[g].pc = "alive" => MadeBy(g, "unlock") = 0
            /\ guard[g].pc = "gone" =>
                   MadeBy(g, "unlock") = (IF guard[g].locked THEN 1 ELSE 0)
            /\ (~guard[g].locked \/ ~guard[g].mutex) => MadeBy(g, "unlock") = 0

\* One guard locked and unlocked its mutex, another's lock() failed and a
\* third's mutex was not constructed; all three are destroyed.
ThreeGuardsGone ==
    /\ \E g \in DOMAIN guard :
           /\ guard[g].pc = "gone"
           /\ guard[g].made = << [fn |-> "lock", at |-> "constructor"],
                                 [fn |-> "unlock", at |-> "destructor"] >>
    /\ \E g \in DOMAIN guard :
           /\ guard[g].pc = "gone"
           /\ guard[g].made = << [fn |-> "lock", at |-> "constructor"] >>
    /\ \E g \in DOMAIN guard :
           /\ guard[g].pc = "gone"
           /\ ~guard[g].mutex

\* C37: when copy(str) or concatenate(str) returned false, the string's
\* buffer pointer, length and maximum length are what they were before the
\* call, and the call passed no buffer to A::free.
FailedCallKeepsString ==
    (string.pc = "alive" /\ string.last.fn \in {"copy", "concatenate"} /\ ~string.last.ret)
        => /\ string.context_ = string.last.before
           /\ string.frees = string.last.frees

\* A constructed string that holds a buffer was given characters of a
\* caller, and the call returned false.
FailedWhileHoldingBuffer ==
    /\ string.pc = "alive"
    /\ string.own
    /\ string.last.fn \in {"copy", "concatenate"}
    /\ string.last.src = "caller"
    /\ ~string.last.ret
    /\ string.context_.str # NULLPTR

\* C38: of a dynamic string, every buffer A::allocate returned is passed to
\* A::free at most once, and exactly once when the string is destroyed; no
\* buffer is read or written after it was passed to A::free; between calls
\* the string holds at most one buffer, the one of its context_.
BuffersFreedOnceNeverUsedAfter ==
    (string.pc # "none" /\ string.L = 0)
        => /\ \A i, j \in DOMAIN string.frees :
                  string.frees[i] = string.frees[j] => i = j
           /\ Freed(string) \subseteq string.got
           /\ string.used = {}
           /\ string.got \ Freed(string) =
                  (IF string.context_.str # NULLPTR THEN {string.context_.str} ELSE {})
           /\ string.pc = "gone" => Freed(string) = string.got

\* C39: when copy(str) returned true, the string's buffer is not null, its
\* length is the length of str and is at most its maximum length.
CopiedStringHasBuffer ==
    (string.pc = "alive" /\ string.last.fn = "copy" /\ string.last.ret)
        => /\ string.context_.str # NULLPTR
           /\ string.context_.len = string.last.len
           /\ string.context_.len <= string.context_.max_

====
